---- MODULE Spec2Model ----
(***************************************************************************)
(* Model of pgpool2_exporter: the scrape orchestrator (Exporter.scrape,    *)
(* Exporter.Collect, queryNamespaceMappings), program startup (main,       *)
(* NewExporter, QueryVersion) and the generic namespace scraper            *)
(* (queryNamespaceMapping with dbToFloat64, dbToString, parseStatusField). *)
(***************************************************************************)
EXTENDS Integers, Sequences, FiniteSets, TLC

\* ------------------------------------------------------------------------
\* Bounds
\* ------------------------------------------------------------------------
MaxScrapes == 3
MaxAttempts == 2
MaxRows == 2
MaxSlots == 3
MaxRuns == 2
MaxMetrics == 2

\* ------------------------------------------------------------------------
\* Static data: the column mapping table
\* ------------------------------------------------------------------------
Collectors == {1, 2}

Tables ==
  {"pool_nodes", "pool_backend_stats", "pool_health_check_stats",
   "pool_processes", "pool_pools", "pool_cache"}

\* metricMaps: per table, per column, the declared columnUsage
metricMaps ==
  [t \in Tables |->
    CASE t = "pool_nodes" ->
           [hostname |-> "LABEL", port |-> "LABEL", role |-> "LABEL",
            status |-> "GAUGE", select_cnt |-> "COUNTER",
            replication_delay |-> "GAUGE"]
      [] t = "pool_backend_stats" ->
           [hostname |-> "LABEL", port |-> "LABEL", role |-> "LABEL",
            status |-> "GAUGE", select_cnt |-> "COUNTER",
            insert_cnt |-> "COUNTER", update_cnt |-> "COUNTER",
            delete_cnt |-> "COUNTER", ddl_cnt |-> "COUNTER",
            other_cnt |-> "COUNTER", panic_cnt |-> "COUNTER",
            fatal_cnt |-> "COUNTER", error_cnt |-> "COUNTER"]
      [] t = "pool_health_check_stats" ->
           [hostname |-> "LABEL", port |-> "LABEL", role |-> "LABEL",
            status |-> "GAUGE", total_count |-> "GAUGE",
            success_count |-> "GAUGE", fail_count |-> "GAUGE",
            skip_count |-> "GAUGE", retry_count |-> "GAUGE",
            average_retry_count |-> "GAUGE", max_retry_count |-> "GAUGE",
            max_duration |-> "GAUGE", min_duration |-> "GAUGE",
            average_duration |-> "GAUGE"]
      [] t = "pool_processes" ->
           [pool_pid |-> "DISCARD", database |-> "DISCARD"]
      [] t = "pool_pools" ->
           [pool_pid |-> "DISCARD"]
      [] t = "pool_cache" ->
           [num_cache_hits |-> "GAUGE", num_selects |-> "GAUGE",
            cache_hit_ratio |-> "GAUGE", num_hash_entries |-> "GAUGE",
            used_hash_entries |-> "GAUGE", num_cache_entries |-> "GAUGE",
            used_cache_entries_size |-> "GAUGE",
            free_cache_entries_size |-> "GAUGE",
            fragment_cache_entries_size |-> "GAUGE"]]

\* tables that queryNamespaceMapping aggregates instead of mapping columns
AggregatedTables == {"pool_processes", "pool_pools"}
GenericTables == Tables \ AggregatedTables

\* makeDescMap, first loop: the columns of a table declared LABEL
LabelColumns(t) == {c \in DOMAIN metricMaps[t] : metricMaps[t][c] = "LABEL"}

\* a compiler that discards only the columns declared DISCARD
MetricMapLabelsKept(t, c) ==
  LET u == metricMaps[t][c]
  IN [discard |-> u = "DISCARD",
      vtype |-> IF u = "COUNTER" THEN "CounterValue" ELSE "GaugeValue",
      desc |-> IF u \in {"COUNTER", "GAUGE"} THEN <<t, c>> ELSE <<>>]

\* makeDescMap, second loop: the MetricMap of a declared column
MetricMapOf(t, c) ==
  LET u == metricMaps[t][c]
  IN [discard |-> u \in {"DISCARD", "LABEL"},
      vtype |-> IF u = "COUNTER" THEN "CounterValue"
                ELSE IF u = "GAUGE" THEN "GaugeValue" ELSE "none",
      desc |-> IF u \in {"COUNTER", "GAUGE"} THEN <<t, c>> ELSE <<>>]

\* version42 = semver.MustParse("4.2.0")
version42 == <<4, 2, 0>>

\* semver.Version{} : the zero value, left in PgpoolSemver until main assigns it
ZeroVersion == <<0, 0, 0>>

\* semver.Version.LT on versions without pre-release parts
LT(v, w) ==
  \/ v[1] < w[1]
  \/ v[1] = w[1] /\ v[2] < w[2]
  \/ v[1] = w[1] /\ v[2] = w[2] /\ v[3] < w[3]

\* ------------------------------------------------------------------------
\* QueryVersion: the leading-version regular expression and ParseTolerant
\* ------------------------------------------------------------------------
Digits == {"0", "1", "2", "3", "4", "5", "6", "7", "8", "9"}

DigitVal(c) ==
  CASE c = "0" -> 0 [] c = "1" -> 1 [] c = "2" -> 2 [] c = "3" -> 3
    [] c = "4" -> 4 [] c = "5" -> 5 [] c = "6" -> 6 [] c = "7" -> 7
    [] c = "8" -> 8 [] c = "9" -> 9

\* number of consecutive digit characters of s starting at position i
RECURSIVE DigitRun(_, _)
DigitRun(s, i) ==
  IF i <= Len(s) /\ s[i] \in Digits THEN 1 + DigitRun(s, i + 1) ELSE 0

\* value of the decimal numeral s[i .. i+n-1]
RECURSIVE Numeral(_, _, _)
Numeral(s, i, n) ==
  IF n = 0 THEN 0 ELSE Numeral(s, i, n - 1) * 10 + DigitVal(s[i + n - 1])

\* pgpoolVersionRegex = ^((\d+)(\.\d+)(\.\d+)?) followed by semver.ParseTolerant
\* on the matched prefix; <<FALSE, zero>> when the text does not match.
ParseVersionText(s) ==
  LET n1 == DigitRun(s, 1)
      dot1 == n1 + 1
      n2 == IF n1 > 0 /\ dot1 <= Len(s) /\ s[dot1] = "."
            THEN DigitRun(s, dot1 + 1) ELSE 0
      dot2 == dot1 + n2 + 1
      n3 == IF n2 > 0 /\ dot2 <= Len(s) /\ s[dot2] = "."
            THEN DigitRun(s, dot2 + 1) ELSE 0
  IN IF n1 = 0 \/ n2 = 0
     THEN <<FALSE, ZeroVersion>>
     ELSE <<TRUE, <<Numeral(s, 1, n1), Numeral(s, dot1 + 1, n2),
                    IF n3 = 0 THEN 0 ELSE Numeral(s, dot2 + 1, n3)>> >>

\* Replies of the server to "SHOW POOL_VERSION;" as seen by QueryVersion:
\* a query error, a result with unexpected columns, or one pool_version text
\* (the empty text stands for a result without rows).
VersionReplies ==
  {[kind |-> "error", text |-> <<>>],
   [kind |-> "columns", text |-> <<"4", ".", "2", ".", "0">>],
   [kind |-> "text", text |-> <<>>],
   [kind |-> "text", text |-> <<"p", "g", "4", ".", "2">>],
   [kind |-> "text", text |-> <<"4", ".", "1", ".", "0", " ", "(", "k", ")">>],
   [kind |-> "text", text |-> <<"4", ".", "1", ".", "1", "2">>],
   [kind |-> "text", text |-> <<"3", ".", "7", ".", "2", "0">>],
   [kind |-> "text", text |-> <<"4", ".", "2", ".", "0", " ", "(", "c", ")">>],
   [kind |-> "text", text |-> <<"4", ".", "2">>],
   [kind |-> "text", text |-> <<"4", ".", "1", "0", ".", "3">>],
   [kind |-> "text", text |-> <<"5", ".", "0", ".", "1">>]}

\* QueryVersion(db): the version it returns (the zero version with any error)
QueryVersion(dbOpen, reply) ==
  IF ~dbOpen \/ reply.kind # "text"
  THEN ZeroVersion
  ELSE ParseVersionText(reply.text)[2]

\* Sets of tables whose SHOW query fails on the server side
FaultySets ==
  {{}, {"pool_nodes"}, {"pool_backend_stats"}, {"pool_processes", "pool_cache"},
   Tables}

\* ------------------------------------------------------------------------
\* Row converter: dbToFloat64, dbToString, parseStatusField
\* ------------------------------------------------------------------------
\* A cell scanned into interface{}: its dynamic type and its content.  num is
\* the number of an int64/float64, the Unix seconds of a time.Time and 1/0 of
\* a bool; text is the content of a []byte or string.
Cell(k, n, x) == [kind |-> k, num |-> n, text |-> x]

\* float64 results: a number num/den in lowest terms, an infinity or NaN
Num(n) == [nan |-> FALSE, inf |-> FALSE, num |-> n, den |-> 1]
NaN == [nan |-> TRUE, inf |-> FALSE, num |-> 0, den |-> 1]
Inf == [nan |-> FALSE, inf |-> TRUE, num |-> 1, den |-> 1]

RECURSIVE GCD(_, _)
GCD(a, b) == IF b = 0 THEN a ELSE GCD(b, a % b)

\* float64 division a/b of two non-negative counts: 0/0 is NaN, n/0 is +Inf
Div(a, b) ==
  IF b = 0
  THEN IF a = 0 THEN NaN ELSE Inf
  ELSE [nan |-> FALSE, inf |-> FALSE, num |-> a \div GCD(a, b),
        den |-> b \div GCD(a, b)]

\* strconv.ParseFloat on the texts that occur in the modelled result sets;
\* every other text is a syntax error
FloatOf == ("0" :> 0) @@ ("3" :> 3) @@ ("12" :> 12)

\* fmt.Sprintf("%v", v) on the numbers that occur in the modelled result sets
TextOf == (0 :> "0") @@ (1 :> "1") @@ (2 :> "2") @@ (7 :> "7") @@
          (5432 :> "5432") @@ (1700 :> "1700")

\* strconv.ParseFloat(s, 64): the value and whether err is nil; "NaN" in any
\* case of letters parses as NaN, a sign before it is a syntax error
ParseFloat(s) ==
  IF s \in DOMAIN FloatOf THEN <<Num(FloatOf[s]), TRUE>>
  ELSE IF s \in {"nan", "NaN"} THEN <<NaN, TRUE>>
  ELSE <<Num(0), FALSE>>

\* a converter that maps every string and []byte to NaN and !ok
dbToFloat64NoText(t) ==
  CASE t.kind \in {"int64", "float64", "time", "bool"} -> <<Num(t.num), TRUE>>
    [] t.kind = "nil" -> <<NaN, TRUE>>
    [] OTHER -> <<NaN, FALSE>>

dbToFloat64(t) ==
  CASE t.kind = "int64" -> <<Num(t.num), TRUE>>
    [] t.kind = "float64" -> <<Num(t.num), TRUE>>
    [] t.kind = "time" -> <<Num(t.num), TRUE>>
    [] t.kind \in {"bytes", "string"} ->
         IF t.text = "-nan" \/ t.text = "nan" THEN <<NaN, TRUE>>
         ELSE IF ParseFloat(t.text)[2] THEN <<ParseFloat(t.text)[1], TRUE>>
         ELSE <<NaN, FALSE>>
    [] t.kind = "bool" -> IF t.num = 1 THEN <<Num(1), TRUE>> ELSE <<Num(0), TRUE>>
    [] t.kind = "nil" -> <<NaN, TRUE>>
    [] OTHER -> <<NaN, FALSE>>

dbToString(t) ==
  CASE t.kind = "int64" -> <<TextOf[t.num], TRUE>>
    [] t.kind = "float64" -> <<TextOf[t.num], TRUE>>
    [] t.kind = "time" -> <<TextOf[t.num], TRUE>>
    [] t.kind = "nil" -> <<"", TRUE>>
    [] t.kind \in {"bytes", "string"} -> <<t.text, TRUE>>
    [] t.kind = "bool" -> IF t.num = 1 THEN <<"true", TRUE>> ELSE <<"false", TRUE>>
    [] OTHER -> <<"", FALSE>>

\* a status mapping that does not know "waiting"
parseStatusFieldStrict(value) ==
  CASE value \in {"true", "up"} -> Num(1)
    [] OTHER -> Num(0)

parseStatusField(value) ==
  CASE value \in {"true", "up", "waiting"} -> Num(1)
    [] value \in {"false", "unused", "down"} -> Num(0)
    [] OTHER -> Num(0)

\* ------------------------------------------------------------------------
\* Result sets the server may return for the generic tables
\* ------------------------------------------------------------------------
\* rows.Columns() of "SHOW <table>;": declared columns in several orders, with
\* columns the mapping does not declare, and with label columns missing
ResultColumns(t) ==
  CASE t = "pool_nodes" ->
         {<<"hostname", "status">>,
          <<"status", "select_cnt">>,
          <<"node_id", "port", "replication_delay">>}
    [] t = "pool_backend_stats" ->
         {<<"role", "insert_cnt">>,
          <<"status", "error_cnt">>}
    [] t = "pool_health_check_stats" ->
         {<<"status", "total_count">>,
          <<"max_duration", "last_health_check">>}
    [] t = "pool_cache" ->
         {<<"num_cache_hits", "num_selects", "cache_hit_ratio">>,
          <<"cache_hit_ratio", "unknown_column">>}
    [] OTHER -> {}

StatusCells ==
  {Cell("bytes", 0, "true"), Cell("bytes", 0, "up"), Cell("string", 0, "waiting"),
   Cell("bool", 0, ""), Cell("bytes", 0, "unused"), Cell("bytes", 0, "down"),
   Cell("bytes", 0, "quarantine"), Cell("other", 0, "")}

LabelCells ==
  {Cell("bytes", 0, "db1"), Cell("int64", 5432, ""), Cell("nil", 0, "")}

MetricCells ==
  {Cell("int64", 7, ""), Cell("bytes", 0, "3"), Cell("bytes", 0, "notanumber"),
   Cell("nil", 0, "")}

CellsFor(t, c) ==
  IF c = "status" THEN StatusCells
  ELSE IF c \in LabelColumns(t) THEN LabelCells
  ELSE MetricCells

\* the rows a result with the given columns may hold
RECURSIVE RowsOver(_, _)
RowsOver(t, cols) ==
  IF cols = <<>> THEN {<<>>}
  ELSE {<<c>> \o r : c \in CellsFor(t, Head(cols)), r \in RowsOver(t, Tail(cols))}

\* orders in which makeDescMap's first loop may append the label columns
LabelOrders(t) ==
  {s \in [1 .. Cardinality(LabelColumns(t)) -> LabelColumns(t)] :
     \A i, j \in DOMAIN s : i # j => s[i] # s[j]}

\* ------------------------------------------------------------------------
\* queryNamespaceMapping, generic path: one scanned row
\* ------------------------------------------------------------------------
\* columnIdx[name]: position of the column in the result; a name the result
\* does not hold reads the zero value of the map, the first position
ColumnIdx(cols, name) ==
  IF \E i \in DOMAIN cols : cols[i] = name
  THEN CHOOSE i \in DOMAIN cols :
         cols[i] = name /\ \A j \in DOMAIN cols : cols[j] = name => j <= i
  ELSE 1

\* labels[idx], _ = dbToString(columnData[columnIdx[label]])
RowLabels(cols, labels, row) ==
  [i \in DOMAIN labels |-> dbToString(row[ColumnIdx(cols, labels[i])])[1]]

\* what the inner loop does with the column at position idx:
\* nothing, one sample, or one non-fatal error
ColumnOutcome(t, cols, labels, row, idx) ==
  LET columnName == cols[idx]
  IN IF columnName \notin DOMAIN metricMaps[t]
     THEN [kind |-> "skip"]
     ELSE LET metricMapping == MetricMapOf(t, columnName)
          IN IF metricMapping.discard
             THEN [kind |-> "skip"]
             ELSE IF columnName = "status"
             THEN LET valueString == dbToString(row[idx])
                  IN IF ~valueString[2]
                     THEN [kind |-> "error", col |-> columnName]
                     ELSE [kind |-> "sample",
                           sample |-> [desc |-> metricMapping.desc,
                                       vtype |-> metricMapping.vtype,
                                       value |-> parseStatusField(valueString[1]),
                                       labels |-> RowLabels(cols, labels, row)]]
             ELSE LET value == dbToFloat64(row[idx])
                  IN IF ~value[2]
                     THEN [kind |-> "error", col |-> columnName]
                     ELSE [kind |-> "sample",
                           sample |-> [desc |-> metricMapping.desc,
                                       vtype |-> metricMapping.vtype,
                                       value |-> value[1],
                                       labels |-> RowLabels(cols, labels, row)]]

\* an inner loop that a failed conversion ends
RECURSIVE RowSamplesUntilError(_, _, _, _, _)
RowSamplesUntilError(t, cols, labels, row, idx) ==
  IF idx > Len(cols) THEN <<>>
  ELSE LET o == ColumnOutcome(t, cols, labels, row, idx)
       IN IF o.kind = "error" THEN <<>>
          ELSE (IF o.kind = "sample" THEN <<o.sample>> ELSE <<>>)
               \o RowSamplesUntilError(t, cols, labels, row, idx + 1)

\* samples sent to ch for one row, in column order, from position idx on
RECURSIVE RowSamples(_, _, _, _, _)
RowSamples(t, cols, labels, row, idx) ==
  IF idx > Len(cols) THEN <<>>
  ELSE LET o == ColumnOutcome(t, cols, labels, row, idx)
       IN (IF o.kind = "sample" THEN <<o.sample>> ELSE <<>>)
          \o RowSamples(t, cols, labels, row, idx + 1)

\* non-fatal errors appended for one row, in column order
RECURSIVE RowErrors(_, _, _, _, _)
RowErrors(t, cols, labels, row, idx) ==
  IF idx > Len(cols) THEN <<>>
  ELSE LET o == ColumnOutcome(t, cols, labels, row, idx)
       IN (IF o.kind = "error" THEN <<o.col>> ELSE <<>>)
          \o RowErrors(t, cols, labels, row, idx + 1)

\* ------------------------------------------------------------------------
\* State
\* ------------------------------------------------------------------------
VARIABLES
  mainpc,        \* position of main: "connect", "register", "version", "serve"
  attempts,      \* failed getDBConn attempts of NewExporter
  DB,            \* Exporter.DB: handle id, 0 = nil
  closed,        \* handles on which Close has been called
  nHandles,      \* number of handles sql.Open has returned so far
  up,            \* Exporter.up gauge
  error,         \* Exporter.error gauge
  totalScrapes,  \* Exporter.totalScrapes counter
  PgpoolSemver,  \* package variable PgpoolSemver
  readers,       \* read holders of Exporter.mutex
  crashed,       \* the process died of a panic
  faulty,        \* environment: tables whose query fails
  verReply,      \* environment: reply to the version query
  collectors,    \* goroutines that call Collect
  pc,            \* per collector: position in Collect/scrape
  err,           \* per collector: local variable err of scrape (TRUE = non-nil)
  probes,        \* per collector: outcomes of the pings of this scrape
  opened,        \* per collector: handle opened by this scrape (0 = none)
  db,            \* per collector: handle passed to queryNamespaceMappings
  todo,          \* per collector: tables the range loop has not visited yet
  queried,       \* per collector: tables whose SHOW query was issued
  errMap,        \* per collector: namespaceErrors keys
  sampled,       \* per collector: tables whose query succeeded (may emit)
  durationSet,   \* per collector: Exporter.duration set by this scrape
  upSeen,        \* per collector: values of up observed during this scrape
  out,           \* per collector: health metrics sent by the last Collect
  lastConn,      \* outcome of the last getDBConn of NewExporter: Open, ping
  scrapesRun     \* number of calls of scrape so far

\* one call of queryNamespaceMapping on a generic table
VARIABLES
  qpc,           \* "off", "query", "rows", "done"
  qTable,        \* namespace
  qCols,         \* columnNames, from rows.Columns()
  qLabels,       \* mapping.labels, as makeDescMap ordered them
  qRowsRead,     \* rows scanned so far
  qRow,          \* columnData of the row scanned last
  qRowSamples,   \* samples sent to ch for the row scanned last
  qNonfatal,     \* nonfatalErrors: the column of every failed conversion
  qSent,         \* number of samples sent to ch by this call
  qResult        \* what the call returned: non-fatal errors and fatal error

rowVars ==
  <<qpc, qTable, qCols, qLabels, qRowsRead, qRow, qRowSamples, qNonfatal,
    qSent, qResult>>

\* one call of queryNamespaceMapping on pool_processes or pool_pools
VARIABLES
  apc,           \* "off", "query", "rows", "done"
  aTable,        \* namespace
  aCols,         \* columnNames, from rows.Columns()
  aRows,         \* environment: the rows of the table
  aLeft,         \* indices of the rows that rows.Next() has not delivered yet
  frontend_total,          \* local of the pool_processes branch
  frontend_used,           \* local of the pool_processes branch
  frontendByUserDb,        \* username -> database -> count
  totalBackends,           \* local of the pool_pools branch
  totalBackendsInUse,      \* local of the pool_pools branch
  backendsInUse,           \* <<pool_pid, pool_id, backend_id, username, database>> -> count
  totalBackendsByProcess,  \* pool_pid -> count
  aCh,           \* samples sent to ch by this call: sample -> how many times
  aResult,       \* what the call returned
  aRun,          \* number of calls on this table so far
  aPrev          \* samples sent to ch by the previous call

aggVars ==
  <<apc, aTable, aCols, aRows, aLeft, frontend_total, frontend_used,
    frontendByUserDb, totalBackends, totalBackendsInUse, backendsInUse,
    totalBackendsByProcess, aCh, aResult, aRun, aPrev>>

\* one conversion of a scanned cell
VARIABLES
  cIn,           \* the cell
  cFloat,        \* result of dbToFloat64, once called
  cString        \* result of dbToString, once called

convVars == <<cIn, cFloat, cString>>

\* one call of Exporter.Describe: the caller, the forwarding goroutine and the
\* two channels between them
VARIABLES
  dpc,           \* where the caller of Describe is
  fpc,           \* where the goroutine started by Describe is
  dToSend,       \* metrics the running Collect has still to send on metricCh
  dSent,         \* metrics Collect has sent on metricCh, in order
  fHeld,         \* the metric the goroutine received and has not forwarded
  dOut,          \* descriptors received from ch, in order
  metricChClosed,
  doneChClosed

descVars ==
  <<dpc, fpc, dToSend, dSent, fHeld, dOut, metricChClosed, doneChClosed>>

\* one call of MaskPassword on a DSN, and one on a DSN that differs from it
\* in the password only
VARIABLES
  mDsn,          \* the DSN
  mTwin,         \* the same DSN with another password
  mOut,          \* MaskPassword(mDsn), once called
  mTwinOut       \* MaskPassword(mTwin), once called

maskVars == <<mDsn, mTwin, mOut, mTwinOut>>

vars ==
  <<mainpc, attempts, DB, closed, nHandles, up, error, totalScrapes, PgpoolSemver,
    readers, crashed, faulty, verReply, collectors, pc, err, probes, opened,
    db, todo, queried, errMap, sampled, durationSet, upSeen, out, lastConn,
    scrapesRun, rowVars, aggVars, convVars, descVars, maskVars>>

envVars ==
  <<faulty, verReply, collectors, rowVars, aggVars, convVars, descVars,
    maskVars>>

NoResult == [returned |-> FALSE, fatal |-> FALSE, nonfatal |-> <<>>]

NoOut == [sent |-> FALSE, up |-> 0, error |-> 0, total |-> 0]

OrchInit(cs, fs, vs) ==
  /\ mainpc = "connect"
  /\ attempts = 0
  /\ DB = 0
  /\ closed = {}
  /\ nHandles = 0
  /\ up = 0
  /\ error = 0
  /\ totalScrapes = 0
  /\ PgpoolSemver = ZeroVersion
  /\ readers = 0
  /\ crashed = FALSE
  /\ faulty \in fs
  /\ verReply \in vs
  /\ collectors = cs
  /\ pc = [p \in Collectors |-> "idle"]
  /\ err = [p \in Collectors |-> FALSE]
  /\ probes = [p \in Collectors |-> <<>>]
  /\ opened = [p \in Collectors |-> 0]
  /\ db = [p \in Collectors |-> 0]
  /\ todo = [p \in Collectors |-> {}]
  /\ queried = [p \in Collectors |-> {}]
  /\ errMap = [p \in Collectors |-> {}]
  /\ sampled = [p \in Collectors |-> {}]
  /\ durationSet = [p \in Collectors |-> FALSE]
  /\ upSeen = [p \in Collectors |-> {}]
  /\ out = [p \in Collectors |-> NoOut]
  /\ lastConn = [open |-> FALSE, ping |-> FALSE]
  /\ scrapesRun = 0

\* no queryNamespaceMapping call is followed row by row
RowsOff ==
  /\ qpc = "off"
  /\ qTable = "pool_nodes"
  /\ qCols = <<>>
  /\ qLabels = <<>>
  /\ qRowsRead = 0
  /\ qRow = <<>>
  /\ qRowSamples = <<>>
  /\ qNonfatal = <<>>
  /\ qSent = 0
  /\ qResult = NoResult

\* the empty map and the empty set of sent samples
EmptyMap == <<>>

NoPrev == [fatal |-> TRUE, ch |-> EmptyMap]

\* no queryNamespaceMapping call on an aggregated table is followed
AggOff ==
  /\ apc = "off"
  /\ aTable = "pool_processes"
  /\ aCols = <<>>
  /\ aRows = <<>>
  /\ aLeft = {}
  /\ frontend_total = 0
  /\ frontend_used = 0
  /\ frontendByUserDb = EmptyMap
  /\ totalBackends = 0
  /\ totalBackendsInUse = 0
  /\ backendsInUse = EmptyMap
  /\ totalBackendsByProcess = EmptyMap
  /\ aCh = EmptyMap
  /\ aResult = NoResult
  /\ aRun = 0
  /\ aPrev = NoPrev

NoConv == [called |-> FALSE, value |-> NaN, text |-> "", ok |-> FALSE]

\* no single conversion is followed
ConvOff ==
  /\ cIn = Cell("nil", 0, "")
  /\ cFloat = NoConv
  /\ cString = NoConv

NoMetric == [desc |-> "", labels |-> <<>>, value |-> 0]

\* no call of Describe is followed
DescOff ==
  /\ dpc = "off"
  /\ fpc = "off"
  /\ dToSend = <<>>
  /\ dSent = <<>>
  /\ fHeld = NoMetric
  /\ dOut = <<>>
  /\ metricChClosed = FALSE
  /\ doneChClosed = FALSE

NoDsn == [called |-> FALSE, text |-> <<>>]

\* no call of MaskPassword is followed
MaskOff ==
  /\ mDsn = <<>>
  /\ mTwin = <<>>
  /\ mOut = NoDsn
  /\ mTwinOut = NoDsn

InitState(cs, fs, vs) ==
  OrchInit(cs, fs, vs) /\ RowsOff /\ AggOff /\ ConvOff /\ DescOff /\ MaskOff


scrapeVars ==
  <<pc, err, probes, opened, db, todo, queried, errMap, sampled, durationSet,
    upSeen, out>>

\* ------------------------------------------------------------------------
\* Startup: main, NewExporter, QueryVersion
\* ------------------------------------------------------------------------

\* a getDBConn that returns the handle without probing it
getDBConnNoProbe(openOk, pingOk) == openOk

\* getDBConn returns a handle and a nil error iff sql.Open and ping succeeded
getDBConn(openOk, pingOk) == openOk /\ pingOk

\* NewExporter: one getDBConn attempt (sql.Open, then ping); a failure sleeps
\* five seconds and tries again
Connect ==
  /\ ~crashed
  /\ mainpc = "connect"
  /\ \E openOk \in BOOLEAN, pingOk \in BOOLEAN :
       /\ pingOk => openOk
       /\ lastConn' = [open |-> openOk, ping |-> pingOk]
       /\ IF getDBConn(openOk, pingOk)
          THEN /\ nHandles' = nHandles + 1
               /\ DB' = nHandles + 1
               /\ mainpc' = "register"
               /\ attempts' = 0
          ELSE /\ attempts < MaxAttempts
               /\ attempts' = attempts + 1
               /\ UNCHANGED <<nHandles, DB, mainpc>>
  /\ UNCHANGED <<closed, up, error, totalScrapes, PgpoolSemver, readers,
                 crashed, envVars, scrapesRun, scrapeVars>>

\* main: exp.PgpoolSemver = QueryVersion(exporter.DB), after MustRegister
DetectVersion ==
  /\ ~crashed
  /\ mainpc = "version"
  /\ PgpoolSemver' = QueryVersion(DB # 0 /\ DB \notin closed, verReply)
  /\ mainpc' = "serve"
  /\ UNCHANGED <<attempts, DB, closed, nHandles, up, error, totalScrapes,
                 readers, crashed, envVars, lastConn,
                 scrapesRun, scrapeVars>>

\* ------------------------------------------------------------------------
\* Exporter.Collect / Exporter.scrape, one collector p
\* ------------------------------------------------------------------------
Sees(p, u) == [upSeen EXCEPT ![p] = @ \cup {u}]

\* a deferred function that always clears the error gauge
DeferredErrorCleared(e) == 0

\* value the deferred function of scrape leaves in the error gauge
DeferredError(e) == IF e THEN 1 ELSE 0

\* a gate that also closes on version 4.2.0 itself
GatedUpTo42(t, v) ==
  /\ t = "pool_backend_stats" \/ t = "pool_health_check_stats"
  /\ ~LT(version42, v)

\* the gate of queryNamespaceMappings
Gated(t, v) ==
  /\ t = "pool_backend_stats" \/ t = "pool_health_check_stats"
  /\ LT(v, version42)

\* a first probe whose failure is only logged
AfterPing1Ignored(ok) == "begin"

\* where scrape goes after the first ping: on, or into the reconnect block
AfterPing1(ok) == IF ok THEN "begin" ELSE "close"

\* a second probe whose failure does not return
AfterPing2NoReturn(ok) == "begin"

\* where scrape goes after the second ping: on, or out through "return"
AfterPing2(ok) == IF ok THEN "begin" ELSE "deferred"

\* a range loop that a fatal table error ends
RemainingUntilError(s, t, failed) == IF failed THEN {} ELSE s \ {t}

\* the tables the range loop still has to visit after table t, whose query
\* failed or not: an error is recorded and the loop goes on
Remaining(s, t, failed) == s \ {t}

\* a reconnect block that starts over with the first probe
AfterReopenStartsOver(ok) == IF ok THEN "ping1" ELSE "panic"

\* where scrape goes after sql.Open in the reconnect block: to the second ping,
\* or, with a nil handle, into the panic of e.DB.SetMaxOpenConns
AfterReopen(ok) == IF ok THEN "ping2" ELSE "panic"

\* a reconnect block that detects the version again
SemverRedetected(v, reply) == QueryVersion(TRUE, reply)

\* PgpoolSemver after the reconnect block of scrape, which does not call
\* QueryVersion
SemverAfterReconnect(v, reply) == v

\* a handle that answers although it was closed
CanAnswerClosed(h, cl) == h # 0

\* db.Query on a handle can succeed only if the handle is open
CanAnswer(h, cl) == h # 0 /\ h \notin cl

\* a counter whose Inc is lost
IncLost(c) == c

\* prometheus Counter.Inc()
Inc(c) == c + 1

\* scrape entry: totalScrapes.Inc(), var err error, defer(begun)
\* MustRegister runs Describe, hence one Collect, before the version is set
ScrapeBegin(p) ==
  /\ ~crashed
  /\ pc[p] = "idle"
  /\ \/ mainpc = "register" /\ p = 1 /\ totalScrapes = 0
     \/ mainpc = "serve"
  /\ scrapesRun < MaxScrapes
  /\ totalScrapes' = Inc(totalScrapes)
  /\ scrapesRun' = scrapesRun + 1
  /\ pc' = [pc EXCEPT ![p] = "ping1"]
  /\ err' = [err EXCEPT ![p] = FALSE]
  /\ probes' = [probes EXCEPT ![p] = <<>>]
  /\ opened' = [opened EXCEPT ![p] = 0]
  /\ db' = [db EXCEPT ![p] = 0]
  /\ todo' = [todo EXCEPT ![p] = {}]
  /\ queried' = [queried EXCEPT ![p] = {}]
  /\ errMap' = [errMap EXCEPT ![p] = {}]
  /\ sampled' = [sampled EXCEPT ![p] = {}]
  /\ durationSet' = [durationSet EXCEPT ![p] = FALSE]
  /\ upSeen' = [upSeen EXCEPT ![p] = {up}]
  /\ out' = [out EXCEPT ![p] = NoOut]
  /\ UNCHANGED <<mainpc, attempts, DB, closed, nHandles, up, error,
                 PgpoolSemver, readers, crashed, envVars, lastConn>>

\* if err = ping(e.DB); err != nil
Ping1(p) ==
  /\ ~crashed
  /\ pc[p] = "ping1"
  /\ \E ok \in BOOLEAN :
       /\ ok => CanAnswer(DB, closed)
       /\ err' = [err EXCEPT ![p] = ~ok]
       /\ probes' = [probes EXCEPT ![p] = Append(@, ok)]
       /\ pc' = [pc EXCEPT ![p] = AfterPing1(ok)]
  /\ upSeen' = Sees(p, up)
  /\ UNCHANGED <<mainpc, attempts, DB, closed, nHandles, up, error,
                 totalScrapes, PgpoolSemver, readers, crashed, envVars, lastConn,
                 scrapesRun,
                 opened, db, todo, queried, errMap, sampled, durationSet, out>>

\* e.DB.Close() of the handle whose ping failed
CloseOld(p) ==
  /\ ~crashed
  /\ pc[p] = "close"
  /\ closed' = closed \cup {DB}
  /\ pc' = [pc EXCEPT ![p] = "reopen"]
  /\ upSeen' = Sees(p, up)
  /\ UNCHANGED <<mainpc, attempts, DB, nHandles, up, error, totalScrapes,
                 PgpoolSemver, readers, crashed, envVars, lastConn,
                 scrapesRun, err, probes, opened,
                 db, todo, queried, errMap, sampled, durationSet, out>>

\* e.DB, err = sql.Open("postgres", e.dsn); e.DB.SetMaxOpenConns(1)
\* sql.Open returning an error leaves e.DB nil and the next call panics
Reopen(p) ==
  /\ ~crashed
  /\ pc[p] = "reopen"
  /\ \E ok \in BOOLEAN :
       IF ok
       THEN /\ nHandles' = nHandles + 1
            /\ DB' = nHandles + 1
            /\ opened' = [opened EXCEPT ![p] = nHandles + 1]
            /\ err' = [err EXCEPT ![p] = FALSE]
            /\ pc' = [pc EXCEPT ![p] = AfterReopen(ok)]
       ELSE /\ DB' = 0
            /\ err' = [err EXCEPT ![p] = TRUE]
            /\ pc' = [pc EXCEPT ![p] = AfterReopen(ok)]
            /\ UNCHANGED <<nHandles, opened>>
  /\ PgpoolSemver' = SemverAfterReconnect(PgpoolSemver, verReply)
  /\ upSeen' = Sees(p, up)
  /\ UNCHANGED <<mainpc, attempts, closed, up, error, totalScrapes,
                 readers, crashed, envVars, lastConn,
                 scrapesRun, probes, db, todo,
                 queried, errMap, sampled, durationSet, out>>

\* the nil dereference unwinds scrape (its deferred function runs) and the
\* panic, which nothing recovers, ends the process
Panic(p) ==
  /\ ~crashed
  /\ pc[p] = "panic"
  /\ durationSet' = [durationSet EXCEPT ![p] = TRUE]
  /\ error' = DeferredError(err[p])
  /\ crashed' = TRUE
  /\ pc' = [pc EXCEPT ![p] = "dead"]
  /\ upSeen' = Sees(p, up)
  /\ UNCHANGED <<mainpc, attempts, DB, closed, nHandles, up, totalScrapes,
                 PgpoolSemver, readers, envVars, lastConn,
                 scrapesRun, err, probes, opened, db,
                 todo, queried, errMap, sampled, out>>

\* if err = ping(e.DB); err != nil { e.DB.Close(); e.up.Set(0); return }
Ping2(p) ==
  /\ ~crashed
  /\ pc[p] = "ping2"
  /\ \E ok \in BOOLEAN :
       /\ ok => CanAnswer(DB, closed)
       /\ err' = [err EXCEPT ![p] = ~ok]
       /\ probes' = [probes EXCEPT ![p] = Append(@, ok)]
       /\ pc' = [pc EXCEPT ![p] = AfterPing2(ok)]
       /\ IF ok
          THEN /\ upSeen' = Sees(p, up)
               /\ UNCHANGED <<closed, up>>
          ELSE /\ closed' = closed \cup {DB}
               /\ up' = 0
               /\ upSeen' = Sees(p, 0)
  /\ UNCHANGED <<mainpc, attempts, DB, nHandles, error, totalScrapes,
                 PgpoolSemver, readers, crashed, envVars, lastConn,
                 scrapesRun, opened, db, todo,
                 queried, errMap, sampled, durationSet, out>>

\* e.up.Set(1); e.error.Set(0); e.mutex.RLock();
\* queryNamespaceMappings(ch, e.DB, e.metricMap) is entered
BeginPass(p) ==
  /\ ~crashed
  /\ pc[p] = "begin"
  /\ up' = 1
  /\ error' = 0
  /\ readers' = readers + 1
  /\ db' = [db EXCEPT ![p] = DB]
  /\ todo' = [todo EXCEPT ![p] = Tables]
  /\ pc' = [pc EXCEPT ![p] = "pass"]
  /\ upSeen' = Sees(p, 1)
  /\ UNCHANGED <<mainpc, attempts, DB, closed, nHandles, totalScrapes,
                 PgpoolSemver, crashed, envVars, lastConn,
                 scrapesRun, err, probes, opened, queried,
                 errMap, sampled, durationSet, out>>

\* one iteration of "for namespace, mapping := range metricMap"; the order of
\* a map range is unspecified, so any table not yet visited may come next
QueryTable(p) ==
  /\ ~crashed
  /\ pc[p] = "pass"
  /\ \E t \in todo[p] :
       IF Gated(t, PgpoolSemver)
       THEN /\ todo' = [todo EXCEPT ![p] = @ \ {t}]
            /\ UNCHANGED <<queried, errMap, sampled>>
       ELSE LET failed == db[p] \in closed \/ t \in faulty
            IN /\ todo' = [todo EXCEPT ![p] = Remaining(@, t, failed)]
               /\ queried' = [queried EXCEPT ![p] = @ \cup {t}]
               /\ IF failed
                  THEN /\ errMap' = [errMap EXCEPT ![p] = @ \cup {t}]
                       /\ UNCHANGED sampled
                  ELSE /\ sampled' = [sampled EXCEPT ![p] = @ \cup {t}]
                       /\ UNCHANGED errMap
  /\ upSeen' = Sees(p, up)
  /\ UNCHANGED <<mainpc, attempts, DB, closed, nHandles, up, error,
                 totalScrapes, PgpoolSemver, readers, crashed, envVars, lastConn,
                 scrapesRun, pc,
                 err, probes, opened, db, durationSet, out>>

\* if len(errMap) > 0 { e.error.Set(1) }, then the deferred RUnlock
EndPass(p) ==
  /\ ~crashed
  /\ pc[p] = "pass"
  /\ todo[p] = {}
  /\ error' = IF errMap[p] # {} THEN 1 ELSE error
  /\ readers' = readers - 1
  /\ pc' = [pc EXCEPT ![p] = "deferred"]
  /\ upSeen' = Sees(p, up)
  /\ UNCHANGED <<mainpc, attempts, DB, closed, nHandles, up, totalScrapes,
                 PgpoolSemver, crashed, envVars, lastConn,
                 scrapesRun, err, probes, opened, db,
                 todo, queried, errMap, sampled, durationSet, out>>

\* the deferred function of scrape: duration.Set(...), then the error gauge
\* from the local err
Deferred(p) ==
  /\ ~crashed
  /\ pc[p] = "deferred"
  /\ durationSet' = [durationSet EXCEPT ![p] = TRUE]
  /\ error' = DeferredError(err[p])
  /\ pc' = [pc EXCEPT ![p] = "emit"]
  /\ upSeen' = Sees(p, up)
  /\ UNCHANGED <<mainpc, attempts, DB, closed, nHandles, up, totalScrapes,
                 PgpoolSemver, readers, crashed, envVars, lastConn,
                 scrapesRun, err, probes, opened,
                 db, todo, queried, errMap, sampled, out>>

\* Collect after scrape: ch <- duration, up, totalScrapes, error
Emit(p) ==
  /\ ~crashed
  /\ pc[p] = "emit"
  /\ out' = [out EXCEPT ![p] = [sent |-> TRUE, up |-> up, error |-> error,
                                total |-> totalScrapes]]
  /\ pc' = [pc EXCEPT ![p] = "idle"]
  /\ mainpc' = IF mainpc = "register" THEN "version" ELSE mainpc
  /\ UNCHANGED <<attempts, DB, closed, nHandles, up, error, totalScrapes,
                 PgpoolSemver, readers, crashed, envVars, lastConn,
                 scrapesRun, err, probes, opened,
                 db, todo, queried, errMap, sampled, durationSet, upSeen>>

Collect(p) ==
  \/ ScrapeBegin(p)
  \/ Ping1(p)
  \/ CloseOld(p)
  \/ Reopen(p)
  \/ Panic(p)
  \/ Ping2(p)
  \/ BeginPass(p)
  \/ QueryTable(p)
  \/ EndPass(p)
  \/ Deferred(p)
  \/ Emit(p)

Next ==
  \/ Connect
  \/ DetectVersion
  \/ \E p \in collectors : Collect(p)

\* one goroutine calls Collect at a time
Init == InitState({1}, FaultySets, VersionReplies)
Spec == Init /\ [][Next]_vars

\* two HTTP pulls may call Collect concurrently
InitConc ==
  InitState({1, 2}, {{}},
            {[kind |-> "text", text |-> <<"4", ".", "2">>]})
SpecConc == InitConc /\ [][Next]_vars

\* ------------------------------------------------------------------------
\* queryNamespaceMapping on a generic table, row by row
\* ------------------------------------------------------------------------
orchVars ==
  <<mainpc, attempts, DB, closed, nHandles, up, error, totalScrapes,
    PgpoolSemver, readers, crashed, faulty, verReply, collectors, pc, err,
    probes, opened, db, todo, queried, errMap, sampled, durationSet, upSeen,
    out, lastConn, scrapesRun>>

\* db.Query("SHOW <namespace>;") and rows.Columns(): either may fail, which is
\* fatal for the table
RunQuery ==
  /\ qpc = "query"
  /\ \E r \in {"queryError", "columnsError", "ok"} :
       IF r = "ok"
       THEN /\ qpc' = "rows"
            /\ UNCHANGED qResult
       ELSE /\ qpc' = "done"
            /\ qResult' = [returned |-> TRUE, fatal |-> TRUE, nonfatal |-> <<>>]
  /\ UNCHANGED <<qTable, qCols, qLabels, qRowsRead, qRow, qRowSamples,
                 qNonfatal, qSent, orchVars, aggVars,
                 convVars, descVars, maskVars>>

\* one iteration of "for rows.Next()": rows.Scan, the label values, then the
\* loop over the columns
ScanRow ==
  /\ qpc = "rows"
  /\ qRowsRead < MaxRows
  /\ \E row \in RowsOver(qTable, qCols) :
       LET samples == RowSamples(qTable, qCols, qLabels, row, 1)
           errors == RowErrors(qTable, qCols, qLabels, row, 1)
       IN /\ qRow' = row
          /\ qRowSamples' = samples
          /\ qNonfatal' = qNonfatal \o errors
          /\ qSent' = qSent + Len(samples)
  /\ qRowsRead' = qRowsRead + 1
  /\ UNCHANGED <<qpc, qTable, qCols, qLabels, qResult, orchVars, aggVars,
                 convVars, descVars, maskVars>>

\* rows.Scan fails: return []error{}, err
ScanFails ==
  /\ qpc = "rows"
  /\ qRowsRead < MaxRows
  /\ qpc' = "done"
  /\ qResult' = [returned |-> TRUE, fatal |-> TRUE, nonfatal |-> <<>>]
  /\ UNCHANGED <<qTable, qCols, qLabels, qRowsRead, qRow, qRowSamples,
                 qNonfatal, qSent, orchVars, aggVars,
                 convVars, descVars, maskVars>>

\* rows.Next() is false: return nonfatalErrors, nil
EndRows ==
  /\ qpc = "rows"
  /\ qpc' = "done"
  /\ qResult' = [returned |-> TRUE, fatal |-> FALSE, nonfatal |-> qNonfatal]
  /\ UNCHANGED <<qTable, qCols, qLabels, qRowsRead, qRow, qRowSamples,
                 qNonfatal, qSent, orchVars, aggVars,
                 convVars, descVars, maskVars>>

NextRows ==
  \/ RunQuery
  \/ ScanRow
  \/ ScanFails
  \/ EndRows

InitRows ==
  /\ OrchInit({}, {{}}, {[kind |-> "error", text |-> <<>>]})
  /\ AggOff
  /\ ConvOff
  /\ DescOff
  /\ MaskOff
  /\ qpc = "query"
  /\ qTable \in GenericTables
  /\ qCols \in ResultColumns(qTable)
  /\ qLabels \in LabelOrders(qTable)
  /\ qRowsRead = 0
  /\ qRow = <<>>
  /\ qRowSamples = <<>>
  /\ qNonfatal = <<>>
  /\ qSent = 0
  /\ qResult = NoResult

SpecRows == InitRows /\ [][NextRows]_vars

\* ------------------------------------------------------------------------
\* Properties of the scrape orchestrator
\* ------------------------------------------------------------------------
VersionedTables == {"pool_backend_stats", "pool_health_check_stats"}

\* the last probe of collector p's current scrape succeeded
ProbeOk(p) == probes[p] # <<>> /\ probes[p][Len(probes[p])]

\* scrape of collector p has returned (Collect may still have to send)
Returned(p) == pc[p] \in {"emit", "idle"} /\ probes[p] # <<>>

\* Collect of collector p has finished
Collected(p) == pc[p] = "idle" /\ out[p].sent

\* C1: after a scrape in which a probe succeeded and the table pass ran, the
\* last_scrape_error gauge that Collect sends is 1 if and only if at least one
\* table had a fatal error in that pass.
C1_ErrorGaugeIffTableError ==
  \A p \in collectors :
    (Collected(p) /\ ProbeOk(p)) => (out[p].error = 1 <=> errMap[p] # {})

\* a scrape is in progress: between the entry of scrape and its return
InScrape(p) ==
  pc[p] \in {"ping1", "close", "reopen", "panic", "ping2", "begin", "pass",
             "deferred"}

\* C2: concurrent Collect calls on one Exporter are mutually exclusive: two
\* scrapes are never in progress together.
C2_ScrapesMutuallyExclusive ==
  \A p, q \in collectors : p # q => ~(InScrape(p) /\ InScrape(q))

\* C3: in a scrape whose first probe and whose probe after the reconnect both
\* fail, up is set to 0, no table query is issued, the scrape leaves through
\* its return (never into the table pass) and its duration is recorded.
C3_DoubleProbeFailureAborts ==
  \A p \in collectors :
    probes[p] = <<FALSE, FALSE>> =>
      /\ up = 0
      /\ queried[p] = {}
      /\ sampled[p] = {}
      /\ pc[p] \in {"deferred", "emit", "idle"}
      /\ Returned(p) => durationSet[p]
      /\ Collected(p) => out[p].up = 0

C3_Witness ==
  /\ probes[1] = <<FALSE, FALSE>>
  /\ Collected(1)
  /\ durationSet[1]
  /\ out[1].up = 0
  /\ out[1].total = 2

\* C4 as stated: in a scrape whose first probe fails and whose re-probe
\* succeeds, up goes from 0 to 1 inside that scrape.
C4_UpGoesFromZeroToOne ==
  \A p \in collectors :
    (probes[p] = <<FALSE, TRUE>> /\ Returned(p)) =>
      (0 \in upSeen[p] /\ up = 1)

\* C4, amended: in a scrape whose first probe fails and whose re-probe
\* succeeds, up is 1 when the scrape ends (the failed first probe writes
\* nothing to up), the table pass runs on the handle this scrape opened and runs
\* to its end, and no table query is issued while no probe has succeeded.
C4_ReconnectEndsUp ==
  \A p \in collectors :
    /\ (queried[p] # {} \/ pc[p] = "pass") => ProbeOk(p)
    /\ (probes[p] = <<FALSE, TRUE>> /\ Returned(p)) =>
         /\ up = 1
         /\ opened[p] # 0
         /\ db[p] = opened[p]
         /\ db[p] \notin closed
         /\ todo[p] = {}
         /\ (Tables \ VersionedTables) \subseteq queried[p]

C4_Witness ==
  /\ probes[1] = <<FALSE, TRUE>>
  /\ Collected(1)
  /\ out[1].up = 1
  /\ upSeen[1] = {1}
  /\ sampled[1] # {}

\* the tables a complete pass queries under version v
PassTables(v) == {t \in Tables : ~(t \in VersionedTables /\ LT(v, version42))}

C6_ScrapeNeverCrashes ==
  /\ ~crashed
  /\ \A p \in collectors : pc[p] \notin {"panic", "dead"}

\* C7: a fatal error of table T is recorded under T only and does not stop the
\* pass: whatever the order of the range loop, a complete pass has queried
\* every table the gate lets through, the error map holds exactly the queried
\* tables that failed, and every other queried table was scraped.
C7_TableFaultIsolation ==
  \A p \in collectors :
    /\ errMap[p] = queried[p] \cap faulty
    /\ sampled[p] = queried[p] \ faulty
    /\ (ProbeOk(p) /\ pc[p] \in {"deferred", "emit", "idle"}) =>
         /\ todo[p] = {}
         /\ (Tables \ VersionedTables) \subseteq queried[p]

C7_Witness ==
  /\ Collected(1)
  /\ errMap[1] = {"pool_processes", "pool_cache"}
  /\ sampled[1] = {"pool_nodes", "pool_pools", "pool_backend_stats",
                   "pool_health_check_stats"}

\* ------------------------------------------------------------------------
\* Properties of the generic scraper
\* ------------------------------------------------------------------------
\* a row has been scanned and converted; qRow and qRowSamples describe it
RowDone == qRowsRead > 0

\* declared usage of a result column
Usage(c) ==
  IF c \in DOMAIN metricMaps[qTable] THEN metricMaps[qTable][c] ELSE "UNDECLARED"

\* positions of the scanned row that are declared COUNTER or GAUGE
MetricPositions == {i \in DOMAIN qCols : Usage(qCols[i]) \in {"COUNTER", "GAUGE"}}

\* the cell at position i converts: as text for status, as a number otherwise
Converts(i) ==
  IF qCols[i] = "status" THEN dbToString(qRow[i])[2] ELSE dbToFloat64(qRow[i])[2]

\* positions in qRowSamples of the samples of column c
SamplesFor(c) == {k \in DOMAIN qRowSamples : qRowSamples[k].desc = <<qTable, c>>}

FailedPositions == {i \in MetricPositions : ~Converts(i)}

\* C8: a cell that cannot be converted drops only its own sample: the failure
\* is appended to the non-fatal errors, every other mapped column of the row
\* is still sent, rows scanned after a failure are treated the same, and a
\* call that ends without query or scan failure returns the non-fatal errors
\* and no fatal error.
C8_ConversionFailureIsLocal ==
  /\ RowDone =>
       /\ \A i \in MetricPositions :
            IF Converts(i) THEN SamplesFor(qCols[i]) # {}
            ELSE SamplesFor(qCols[i]) = {}
       /\ Len(qNonfatal) >= Cardinality(FailedPositions)
       /\ {qNonfatal[k] : k \in (Len(qNonfatal) - Cardinality(FailedPositions) + 1)
                                   .. Len(qNonfatal)}
            = {qCols[i] : i \in FailedPositions}
       /\ qSent >= Len(qRowSamples)
  /\ (qNonfatal # <<>> /\ ~qResult.returned) => qpc = "rows"
  /\ (qResult.returned /\ ~qResult.fatal) => qResult.nonfatal = qNonfatal
  /\ (qResult.returned /\ qResult.nonfatal # <<>>) => ~qResult.fatal

C8_Witness ==
  /\ qRowsRead = 2
  /\ qCols = <<"status", "select_cnt">>
  /\ qRow[1].kind = "other"
  /\ Len(qNonfatal) = 2
  /\ Len(qRowSamples) = 1
  /\ qSent = 2
  /\ qResult.returned
  /\ ~qResult.fatal

\* C9: every scanned row of a generic table yields exactly one sample for each
\* result column declared COUNTER or GAUGE whose cell converts, and no sample
\* for a column declared LABEL or DISCARD or not declared at all.
C9_OneSamplePerMetricColumn ==
  RowDone =>
    /\ \A i \in DOMAIN qCols :
         Cardinality(SamplesFor(qCols[i])) =
           IF Usage(qCols[i]) \in {"COUNTER", "GAUGE"} /\ Converts(i) THEN 1 ELSE 0
    /\ Len(qRowSamples) = Cardinality({i \in MetricPositions : Converts(i)})
    /\ \A k \in DOMAIN qRowSamples :
         qRowSamples[k].vtype =
           IF metricMaps[qTable][qRowSamples[k].desc[2]] = "COUNTER"
           THEN "CounterValue" ELSE "GaugeValue"

C9_Witness ==
  /\ RowDone
  /\ qTable = "pool_nodes"
  /\ qCols = <<"node_id", "port", "replication_delay">>
  /\ qRow[1].kind = "int64"
  /\ qRow[2].kind = "int64"
  /\ Len(qRowSamples) = 1
  /\ qRowSamples[1].desc = <<"pool_nodes", "replication_delay">>

\* C10: for a row whose status cell is text, the status sample is 1 for
\* "true", "up" and "waiting" and 0 for every other text, never an error, and
\* it carries the label values of that same row.
C10_StatusSample ==
  RowDone =>
    \A i \in DOMAIN qCols :
      (qCols[i] = "status" /\ qRow[i].kind \in {"bytes", "string"}) =>
        /\ Cardinality(SamplesFor("status")) = 1
        /\ \A k \in SamplesFor("status") :
             /\ qRowSamples[k].value =
                  IF qRow[i].text \in {"true", "up", "waiting"} THEN Num(1) ELSE Num(0)
             /\ Len(qRowSamples[k].labels) = Len(qLabels)
             /\ \A n \in DOMAIN qLabels :
                  \A j \in DOMAIN qCols :
                    qCols[j] = qLabels[n] =>
                      qRowSamples[k].labels[n] = dbToString(qRow[j])[1]

C10_Witness ==
  /\ RowDone
  /\ qCols = <<"hostname", "status">>
  /\ qRow[1].text = "db1"
  /\ qRow[2].text = "waiting"
  /\ Len(qRowSamples) = 1
  /\ qRowSamples[1].value = Num(1)
  /\ \E n \in DOMAIN qLabels :
       qLabels[n] = "hostname" /\ qRowSamples[1].labels[n] = "db1"

\* ------------------------------------------------------------------------
\* queryNamespaceMapping on pool_processes and pool_pools, row by row
\* ------------------------------------------------------------------------
Bytes(x) == Cell("bytes", 0, x)
Nil == Cell("nil", 0, "")

\* rows.Columns() of "SHOW pool_processes;" and "SHOW pool_pools;"
AggColumns(t) ==
  CASE t = "pool_processes" ->
         {<<"pool_pid", "database", "username">>, <<"pool_pid", "database">>}
    [] t = "pool_pools" ->
         {<<"pool_pid", "pool_id", "backend_id", "database", "username">>}

\* the cells a column of these tables may hold; an idle process or slot has
\* an empty or NULL database and username
AggCells(t, c) ==
  CASE c = "pool_pid" ->
         IF t = "pool_pools" THEN {Bytes("101"), Bytes("102"), Nil}
         ELSE {Bytes("101")}
    [] c = "pool_id" -> {Bytes("0"), Bytes("1")}
    [] c = "backend_id" -> {Bytes("0")}
    [] c = "database" ->
         IF t = "pool_pools" THEN {Bytes("app")}
         ELSE {Bytes("app"), Bytes("db2"), Bytes("")}
    [] c = "username" ->
         IF t = "pool_pools" THEN {Bytes("alice"), Bytes("")}
         ELSE {Bytes("alice"), Bytes("bob"), Nil}

RECURSIVE AggRowsOver(_, _)
AggRowsOver(t, cols) ==
  IF cols = <<>> THEN {<<>>}
  ELSE {<<c>> \o r : c \in AggCells(t, Head(cols)),
                     r \in AggRowsOver(t, Tail(cols))}

\* the tables of at most n rows
RECURSIVE TablesOver(_, _)
TablesOver(kinds, n) ==
  IF n = 0 THEN {<<>>}
  ELSE {<<>>} \cup {<<r>> \o rest : r \in kinds, rest \in TablesOver(kinds, n - 1)}

\* "for idx, columnName := range columnNames { switch columnName { case name:
\* value, _ = dbToString(columnData[idx]) } }": the last column of that name
\* wins, and without one the value stays ""
ColumnValue(cols, row, name) ==
  LET hits == {i \in DOMAIN cols : cols[i] = name}
  IN  IF hits = {} THEN ""
      ELSE dbToString(row[CHOOSE i \in hits : \A j \in hits : j <= i])[1]

Sample(name, labels, value) ==
  [name |-> name, labels |-> labels, value |-> value]

\* ch <- sample
Send(ch, s) ==
  IF s \in DOMAIN ch THEN [ch EXCEPT ![s] = @ + 1] ELSE (s :> 1) @@ ch

\* m[k]++ on a Go map: a missing key counts from zero
Incr(m, k) ==
  IF k \in DOMAIN m THEN [m EXCEPT ![k] = @ + 1] ELSE (k :> 1) @@ m

\* m[k] on a Go map of numbers: a missing key reads as zero
Lookup(m, k) == IF k \in DOMAIN m THEN m[k] ELSE 0

\* a grouping that starts every pair over
AddFrontendFresh(m, u, d) == (u :> (d :> 1)) @@ m

\* dbCount, ok := frontendByUserDb[u]; if !ok { dbCount = {d: 0} };
\* dbCount[d]++; frontendByUserDb[u] = dbCount
AddFrontend(m, u, d) ==
  LET dbCount == IF u \in DOMAIN m THEN m[u] ELSE (d :> 0)
  IN  (u :> Incr(dbCount, d)) @@ m

\* a map that keeps the counts of the previous call
KeptFrontendByUserDb(old) == old

\* frontendByUserDb := make(map[string]map[string]int)
MakeFrontendByUserDb(old) == EmptyMap

\* the (username, database) keys of frontendByUserDb
FrontendPairs(m) == UNION {{<<u, d>> : d \in DOMAIN m[u]} : u \in DOMAIN m}

\* a branch that sends one unlabelled frontend_used sample
FrontendUsedSamplesFlat(ch, m, keys) ==
  Send(ch, Sample("frontend_used", <<>>, Num(Cardinality(keys))))

\* for userName, dbs := range frontendByUserDb { for dbName, count := range
\* dbs { ch <- frontend_used{userName, dbName} = float64(count) } }
RECURSIVE FrontendUsedSamples(_, _, _)
FrontendUsedSamples(ch, m, keys) ==
  IF keys = {} THEN ch
  ELSE LET k == CHOOSE x \in keys : TRUE
       IN  FrontendUsedSamples(
             Send(ch, Sample("frontend_used", <<k[1], k[2]>>, Num(m[k[1]][k[2]]))),
             m, keys \ {k})

\* a branch that forgets the ratio
ProcessTotalsNoRatio(ch, total, used) ==
  Send(ch, Sample("frontend_total", <<>>, Num(total)))

\* ch <- frontend_total; ch <- frontend_used_ratio
ProcessTotals(ch, total, used) ==
  Send(Send(ch, Sample("frontend_total", <<>>, Num(total))),
       Sample("frontend_used_ratio", <<>>, Div(used, total)))

\* the orchestrator vars, the generic call and the conversion stay as they are
aggFrame == <<orchVars, rowVars, convVars, descVars, maskVars>>

\* db.Query("SHOW <namespace>;") and rows.Columns(), then the locals of the
\* branch of the table
AggQuery ==
  /\ apc = "query"
  /\ aRun' = aRun + 1
  /\ \E r \in {"queryError", "columnsError", "ok"} :
       IF r = "ok"
       THEN /\ apc' = "rows"
            /\ aLeft' = DOMAIN aRows
            /\ frontend_total' = 0
            /\ frontend_used' = 0
            /\ frontendByUserDb' = MakeFrontendByUserDb(frontendByUserDb)
            /\ totalBackends' = 0
            /\ totalBackendsInUse' = 0
            /\ backendsInUse' = EmptyMap
            /\ totalBackendsByProcess' = EmptyMap
            /\ aCh' = EmptyMap
            /\ aResult' = NoResult
       ELSE /\ apc' = "done"
            /\ aCh' = EmptyMap
            /\ aResult' = [returned |-> TRUE, fatal |-> TRUE, nonfatal |-> <<>>]
            /\ UNCHANGED <<aLeft, frontend_total, frontend_used,
                           frontendByUserDb, totalBackends, totalBackendsInUse,
                           backendsInUse, totalBackendsByProcess>>
  /\ UNCHANGED <<aTable, aCols, aRows, aPrev, aggFrame>>

\* the rows rows.Next() may deliver next: the first call reads the table in
\* the order of aRows, a later call may get the same rows in any order
Deliverable ==
  IF aRun = 1 THEN {i \in aLeft : \A j \in aLeft : i <= j} ELSE aLeft

\* pool_processes: one iteration of "for rows.Next()"
ScanProcessRow ==
  /\ apc = "rows"
  /\ aTable = "pool_processes"
  /\ \E i \in Deliverable :
       LET valueDatabase == ColumnValue(aCols, aRows[i], "database")
           valueUsername == ColumnValue(aCols, aRows[i], "username")
       IN /\ aLeft' = aLeft \ {i}
          /\ frontend_total' = frontend_total + 1
          /\ IF valueDatabase # "" /\ valueUsername # ""
             THEN /\ frontend_used' = frontend_used + 1
                  /\ frontendByUserDb' =
                       AddFrontend(frontendByUserDb, valueUsername, valueDatabase)
             ELSE UNCHANGED <<frontend_used, frontendByUserDb>>
  /\ UNCHANGED <<apc, aTable, aCols, aRows, totalBackends, totalBackendsInUse,
                 backendsInUse, totalBackendsByProcess, aCh, aResult, aRun,
                 aPrev, aggFrame>>

\* a scan failure that sends what was counted so far before it returns
AggScanFailsAfterTotals ==
  /\ apc = "rows"
  /\ aLeft # {}
  /\ apc' = "done"
  /\ aCh' = Send(aCh, Sample("frontend_total", <<>>, Num(frontend_total)))
  /\ aResult' = [returned |-> TRUE, fatal |-> TRUE, nonfatal |-> <<>>]
  /\ UNCHANGED <<aTable, aCols, aRows, aLeft, frontend_total, frontend_used,
                 frontendByUserDb, totalBackends, totalBackendsInUse,
                 backendsInUse, totalBackendsByProcess, aRun, aPrev,
                 aggFrame>>

\* rows.Scan fails in either branch: return []error{}, err; nothing was sent
AggScanFails ==
  /\ apc = "rows"
  /\ aLeft # {}
  /\ apc' = "done"
  /\ aResult' = [returned |-> TRUE, fatal |-> TRUE, nonfatal |-> <<>>]
  /\ UNCHANGED <<aTable, aCols, aRows, aLeft, frontend_total, frontend_used,
                 frontendByUserDb, totalBackends, totalBackendsInUse,
                 backendsInUse, totalBackendsByProcess, aCh, aRun, aPrev,
                 aggFrame>>

\* pool_processes: rows.Next() is false; the samples are sent and the call
\* returns nonfatalErrors, nil
EndProcessRows ==
  /\ apc = "rows"
  /\ aTable = "pool_processes"
  /\ aLeft = {}
  /\ aCh' = ProcessTotals(
              FrontendUsedSamples(aCh, frontendByUserDb,
                                  FrontendPairs(frontendByUserDb)),
              frontend_total, frontend_used)
  /\ apc' = "done"
  /\ aResult' = [returned |-> TRUE, fatal |-> FALSE, nonfatal |-> <<>>]
  /\ UNCHANGED <<aTable, aCols, aRows, aLeft, frontend_total, frontend_used,
                 frontendByUserDb, totalBackends, totalBackendsInUse,
                 backendsInUse, totalBackendsByProcess, aRun, aPrev, aggFrame>>

\* the process ids that key backendsInUse
UsedProcesses(m) == {k[1] : k \in DOMAIN m}

\* the groups of one process in backendsInUse
GroupsOf(m, poolPid) == {k \in DOMAIN m : k[1] = poolPid}

\* the four inner loops of one process: ch <- backend_by_process_used{poolPid,
\* poolId, backendId, userName, dbName} = count
RECURSIVE ProcessGroupSamples(_, _, _)
ProcessGroupSamples(ch, m, keys) ==
  IF keys = {} THEN ch
  ELSE LET k == CHOOSE x \in keys : TRUE
       IN  ProcessGroupSamples(
             Send(ch, Sample("backend_by_process_used", k, Num(m[k]))),
             m, keys \ {k})

\* "for poolPid, poolIds := range backendsInUse": usedProcessBackends is
\* incremented once per group; then the ratio and the total of the process
RECURSIVE ByProcessSamples(_, _, _, _)
ByProcessSamples(ch, m, byProcess, pids) ==
  IF pids = {} THEN ch
  ELSE LET poolPid == CHOOSE x \in pids : TRUE
           usedProcessBackends == Cardinality(GroupsOf(m, poolPid))
           sent == ProcessGroupSamples(ch, m, GroupsOf(m, poolPid))
           ratio == Sample("backend_by_process_used_ratio", <<poolPid>>,
                           Div(usedProcessBackends, Lookup(byProcess, poolPid)))
           total == Sample("backend_by_process_total", <<poolPid>>,
                           Num(Lookup(byProcess, poolPid)))
       IN  ByProcessSamples(Send(Send(sent, ratio), total), m, byProcess,
                            pids \ {poolPid})

\* a branch that reports the slots in use as the total
PoolTotalsUsedAsTotal(ch, total, inUse) ==
  Send(Send(Send(ch, Sample("backend_total", <<>>, Num(inUse))),
            Sample("backend_used", <<>>, Num(inUse))),
       Sample("backend_used_ratio", <<>>, Div(inUse, total)))

\* ch <- backend_total; ch <- backend_used; ch <- backend_used_ratio
PoolTotals(ch, total, inUse) ==
  Send(Send(Send(ch, Sample("backend_total", <<>>, Num(total))),
            Sample("backend_used", <<>>, Num(inUse))),
       Sample("backend_used_ratio", <<>>, Div(inUse, total)))

\* pool_pools: one iteration of "for rows.Next()"
ScanPoolRow ==
  /\ apc = "rows"
  /\ aTable = "pool_pools"
  /\ \E i \in Deliverable :
       LET valuePoolPid == ColumnValue(aCols, aRows[i], "pool_pid")
           valuePoolId == ColumnValue(aCols, aRows[i], "pool_id")
           valueBackendId == ColumnValue(aCols, aRows[i], "backend_id")
           valueDatabase == ColumnValue(aCols, aRows[i], "database")
           valueUsername == ColumnValue(aCols, aRows[i], "username")
       IN /\ aLeft' = aLeft \ {i}
          /\ IF valuePoolPid # ""
             THEN /\ totalBackends' = totalBackends + 1
                  /\ totalBackendsByProcess' =
                       Incr(totalBackendsByProcess, valuePoolPid)
             ELSE UNCHANGED <<totalBackends, totalBackendsByProcess>>
          /\ IF valueUsername # ""
             THEN /\ totalBackendsInUse' = totalBackendsInUse + 1
                  /\ backendsInUse' =
                       Incr(backendsInUse,
                            <<valuePoolPid, valuePoolId, valueBackendId,
                              valueUsername, valueDatabase>>)
             ELSE UNCHANGED <<totalBackendsInUse, backendsInUse>>
  /\ UNCHANGED <<apc, aTable, aCols, aRows, frontend_total, frontend_used,
                 frontendByUserDb, aCh, aResult, aRun, aPrev, aggFrame>>

\* pool_pools: rows.Next() is false; the samples are sent and the call returns
\* nonfatalErrors, nil
EndPoolRows ==
  /\ apc = "rows"
  /\ aTable = "pool_pools"
  /\ aLeft = {}
  /\ aCh' = PoolTotals(
              ByProcessSamples(aCh, backendsInUse, totalBackendsByProcess,
                               UsedProcesses(backendsInUse)),
              totalBackends, totalBackendsInUse)
  /\ apc' = "done"
  /\ aResult' = [returned |-> TRUE, fatal |-> FALSE, nonfatal |-> <<>>]
  /\ UNCHANGED <<aTable, aCols, aRows, aLeft, frontend_total, frontend_used,
                 frontendByUserDb, totalBackends, totalBackendsInUse,
                 backendsInUse, totalBackendsByProcess, aRun, aPrev, aggFrame>>

\* the next scrape calls queryNamespaceMapping on pool_processes again; the
\* table has not changed
AggAgain ==
  /\ apc = "done"
  /\ aTable = "pool_processes"
  /\ aRun < MaxRuns
  /\ apc' = "query"
  /\ aPrev' = [fatal |-> aResult.fatal, ch |-> aCh]
  /\ UNCHANGED <<aTable, aCols, aRows, aLeft, frontend_total, frontend_used,
                 frontendByUserDb, totalBackends, totalBackendsInUse,
                 backendsInUse, totalBackendsByProcess, aCh, aResult, aRun,
                 aggFrame>>

NextAgg ==
  \/ AggQuery
  \/ ScanProcessRow
  \/ ScanPoolRow
  \/ AggScanFails
  \/ EndProcessRows
  \/ EndPoolRows
  \/ AggAgain

InitAgg ==
  /\ OrchInit({}, {{}}, {[kind |-> "error", text |-> <<>>]})
  /\ RowsOff
  /\ ConvOff
  /\ DescOff
  /\ MaskOff
  /\ apc = "query"
  /\ aTable \in AggregatedTables
  /\ aCols \in AggColumns(aTable)
  /\ aRows \in TablesOver(AggRowsOver(aTable, aCols), MaxSlots)
  /\ aLeft = {}
  /\ frontend_total = 0
  /\ frontend_used = 0
  /\ frontendByUserDb = EmptyMap
  /\ totalBackends = 0
  /\ totalBackendsInUse = 0
  /\ backendsInUse = EmptyMap
  /\ totalBackendsByProcess = EmptyMap
  /\ aCh = EmptyMap
  /\ aResult = NoResult
  /\ aRun = 0
  /\ aPrev = NoPrev

SpecAgg == InitAgg /\ [][NextAgg]_vars

\* ------------------------------------------------------------------------
\* Properties of the frontend-process aggregator
\* ------------------------------------------------------------------------
\* a call on pool_processes has returned without a fatal error
ProcessesReturned ==
  aTable = "pool_processes" /\ apc = "done" /\ aResult.returned /\ ~aResult.fatal

RowUsername(i) == ColumnValue(aCols, aRows[i], "username")
RowDatabase(i) == ColumnValue(aCols, aRows[i], "database")

\* rows whose username and database are both non-empty
BoundRows == {i \in DOMAIN aRows : RowUsername(i) # "" /\ RowDatabase(i) # ""}

RowsOfPair(u, d) == {i \in DOMAIN aRows : RowUsername(i) = u /\ RowDatabase(i) = d}

\* how many times the sample was sent
Copies(ch, s) == IF s \in DOMAIN ch THEN ch[s] ELSE 0

\* the samples of that name and those label values
Named(ch, name, labels) ==
  {s \in DOMAIN ch : s.name = name /\ s.labels = labels}

\* C11: when the pool_processes call returns, exactly one frontend_total sample
\* was sent and its value is the number of rows; for every pair (username,
\* database) of a row whose username and database are both non-empty exactly
\* one frontend_used sample with these label values was sent and its value is
\* the number of rows with that pair; every labelled frontend_used sample
\* belongs to the pair of some such row.
C11_FrontendGrouping ==
  ProcessesReturned =>
    /\ Named(aCh, "frontend_total", <<>>) =
         {Sample("frontend_total", <<>>, Num(Len(aRows)))}
    /\ Copies(aCh, Sample("frontend_total", <<>>, Num(Len(aRows)))) = 1
    /\ \A i \in BoundRows :
         LET pair == <<RowUsername(i), RowDatabase(i)>>
             s == Sample("frontend_used", pair,
                         Num(Cardinality(RowsOfPair(pair[1], pair[2]))))
         IN  Named(aCh, "frontend_used", pair) = {s} /\ Copies(aCh, s) = 1
    /\ \A s \in DOMAIN aCh :
         (s.name = "frontend_used" /\ s.labels # <<>>) =>
           \E i \in BoundRows : s.labels = <<RowUsername(i), RowDatabase(i)>>

\* three rows, two bound to (alice, app) and one unbound
C11_Witness ==
  /\ ProcessesReturned
  /\ Len(aRows) = 3
  /\ Cardinality(RowsOfPair("alice", "app")) = 2
  /\ Cardinality(BoundRows) = 2
  /\ Copies(aCh, Sample("frontend_used", <<"alice", "app">>, Num(2))) = 1
  /\ Copies(aCh, Sample("frontend_total", <<>>, Num(3))) = 1

RECURSIVE SumOfValues(_, _)
SumOfValues(ch, samples) ==
  IF samples = {} THEN 0
  ELSE LET s == CHOOSE x \in samples : TRUE
       IN  ch[s] * s.value.num + SumOfValues(ch, samples \ {s})

C14_AggregatorIdempotent ==
  (ProcessesReturned /\ aRun >= 2 /\ ~aPrev.fatal) => aCh = aPrev.ch

\* a second call over at least two different rows, one of them bound
C14_Witness ==
  /\ ProcessesReturned
  /\ aRun = 2
  /\ ~aPrev.fatal
  /\ Len(aRows) >= 2
  /\ aRows[1] # aRows[2]
  /\ BoundRows # {}
  /\ aCh = aPrev.ch

\* ------------------------------------------------------------------------
\* Properties of the backend pool-slot aggregator
\* ------------------------------------------------------------------------
\* a call on pool_pools has returned without a fatal error
PoolsReturned ==
  aTable = "pool_pools" /\ apc = "done" /\ aResult.returned /\ ~aResult.fatal

RowPoolPid(i) == ColumnValue(aCols, aRows[i], "pool_pid")

\* the group of a row: process, pool slot, backend, username, database
RowGroup(i) ==
  <<RowPoolPid(i), ColumnValue(aCols, aRows[i], "pool_id"),
    ColumnValue(aCols, aRows[i], "backend_id"), RowUsername(i), RowDatabase(i)>>

\* rows that carry a process id, rows bound to a username
SlotRows == {i \in DOMAIN aRows : RowPoolPid(i) # ""}
InUseRows == {i \in DOMAIN aRows : RowUsername(i) # ""}

\* C15: when the pool_pools call returns, exactly one sample each of
\* backend_total, backend_used and backend_used_ratio was sent; backend_total
\* is the number of rows with a process id, backend_used the number of rows
\* with a username, and backend_used_ratio their quotient, NaN or +Inf when no
\* row has a process id.
C15_PoolTotals ==
  PoolsReturned =>
    LET total == Sample("backend_total", <<>>, Num(Cardinality(SlotRows)))
        used == Sample("backend_used", <<>>, Num(Cardinality(InUseRows)))
        ratio == Sample("backend_used_ratio", <<>>,
                        Div(Cardinality(InUseRows), Cardinality(SlotRows)))
    IN /\ {s \in DOMAIN aCh : s.name = "backend_total"} = {total}
       /\ {s \in DOMAIN aCh : s.name = "backend_used"} = {used}
       /\ {s \in DOMAIN aCh : s.name = "backend_used_ratio"} = {ratio}
       /\ aCh[total] = 1 /\ aCh[used] = 1 /\ aCh[ratio] = 1
       /\ SlotRows = {} => (ratio.value.nan \/ ratio.value.inf)

\* three slots of two processes, two of them in use
C15_Witness ==
  /\ PoolsReturned
  /\ Cardinality(SlotRows) = 3
  /\ Cardinality(InUseRows) = 2
  /\ Cardinality({RowPoolPid(i) : i \in SlotRows}) = 2
  /\ Copies(aCh, Sample("backend_used_ratio", <<>>,
                        [nan |-> FALSE, inf |-> FALSE, num |-> 2, den |-> 3])) = 1

RowsOfProcess(pid) == {i \in DOMAIN aRows : RowPoolPid(i) = pid}

\* C16 as stated: for every process id of some row, exactly one
\* backend_by_process_total sample with the number of rows of the process and
\* exactly one backend_by_process_used_ratio sample were sent, also when no row
\* of the process has a username.
C16_PerProcessCoverage ==
  PoolsReturned =>
    \A i \in SlotRows :
      LET pid == RowPoolPid(i)
          totals == Named(aCh, "backend_by_process_total", <<pid>>)
          ratios == Named(aCh, "backend_by_process_used_ratio", <<pid>>)
      IN /\ totals = {Sample("backend_by_process_total", <<pid>>,
                             Num(Cardinality(RowsOfProcess(pid))))}
         /\ \A s \in totals : aCh[s] = 1
         /\ Cardinality(ratios) = 1
         /\ \A s \in ratios : aCh[s] = 1

\* C17 as stated: every backend_by_process_used sample has as value the number
\* of rows of its group, and every backend_by_process_used_ratio sample of a
\* process (a non-empty process id) has as value the number of rows of the
\* process that have a username divided by the number of rows of the process.
C17_PerProcessValues ==
  PoolsReturned =>
    /\ \A s \in DOMAIN aCh :
         s.name = "backend_by_process_used" =>
           s.value = Num(Cardinality({i \in DOMAIN aRows : RowGroup(i) = s.labels}))
    /\ \A s \in DOMAIN aCh :
         (s.name = "backend_by_process_used_ratio" /\ s.labels[1] # "") =>
           s.value = Div(Cardinality(RowsOfProcess(s.labels[1]) \cap InUseRows),
                         Cardinality(RowsOfProcess(s.labels[1])))

\* ------------------------------------------------------------------------
\* dbToFloat64 and dbToString on one scanned cell
\* ------------------------------------------------------------------------
\* the numbers and texts of the cells converted
ConvNums == DOMAIN TextOf
ConvTexts ==
  DOMAIN FloatOf \cup {"", "nan", "-nan", "NaN", "notanumber", "up", "true"}

\* what rows.Scan may store in an interface{}: the types the switch names, and
\* one it does not name
ConvCells ==
  {Cell(k, n, "") : k \in {"int64", "float64", "time", "int32"}, n \in ConvNums}
    \cup {Cell("bool", n, "") : n \in {0, 1}}
    \cup {Cell(k, 0, x) : k \in {"bytes", "string"}, x \in ConvTexts}
    \cup {Nil}

CallDbToFloat64 ==
  /\ ~cFloat.called
  /\ cFloat' = [called |-> TRUE, value |-> dbToFloat64(cIn)[1], text |-> "",
                ok |-> dbToFloat64(cIn)[2]]
  /\ UNCHANGED <<cIn, cString, orchVars, rowVars, aggVars, descVars,
                 maskVars>>

CallDbToString ==
  /\ ~cString.called
  /\ cString' = [called |-> TRUE, value |-> NaN, text |-> dbToString(cIn)[1],
                 ok |-> dbToString(cIn)[2]]
  /\ UNCHANGED <<cIn, cFloat, orchVars, rowVars, aggVars, descVars,
                 maskVars>>

NextConv ==
  \/ CallDbToFloat64
  \/ CallDbToString

InitConv ==
  /\ OrchInit({}, {{}}, {[kind |-> "error", text |-> <<>>]})
  /\ RowsOff
  /\ AggOff
  /\ DescOff
  /\ MaskOff
  /\ cIn \in ConvCells
  /\ cFloat = NoConv
  /\ cString = NoConv

SpecConv == InitConv /\ [][NextConv]_vars

\* ------------------------------------------------------------------------
\* Properties of startup, the scrape counter and the conversions
\* ------------------------------------------------------------------------
\* NewExporter with a scheduler that lets the retry loop run; the guard of
\* Connect makes the server reachable after at most MaxAttempts failures
SpecStart == Init /\ [][Next]_vars /\ WF_vars(Connect)

\* NewExporter has returned only if the last getDBConn opened and probed
\* successfully
ReturnedConnected ==
  mainpc # "connect" => (lastConn.open /\ lastConn.ping /\ nHandles >= 1)

\* an attempt that succeeds returns at once, one that fails stays in the loop
RetryStep ==
  mainpc = "connect" =>
    IF lastConn'.open /\ lastConn'.ping
    THEN mainpc' = "register" /\ DB' # 0
    ELSE mainpc' = "connect" /\ DB' = 0 /\ attempts' = attempts + 1

\* C18: NewExporter returns only after a getDBConn whose sql.Open and ping both
\* succeeded; every attempt that fails is followed by another attempt and never
\* by a return, an attempt that succeeds returns at once, and when the server
\* becomes reachable NewExporter does return.
C18_RetryUntilConnected ==
  /\ []ReturnedConnected
  /\ [][RetryStep]_vars
  /\ [](mainpc = "connect" => ENABLED Connect)
  /\ <>(mainpc # "connect")

\* MaxAttempts attempts have failed, the last one at the probe, and NewExporter
\* has not returned
C18_Witness ==
  /\ mainpc = "connect"
  /\ attempts = MaxAttempts
  /\ lastConn.open /\ ~lastConn.ping
  /\ DB = 0

\* C19: totalScrapes never decreases, changes only by one and only when a
\* scrape begins, every scrape that begins raises it by one, and it equals the
\* number of scrapes begun so far.
C19_ScrapesCounted ==
  /\ [](totalScrapes = scrapesRun)
  /\ [][/\ totalScrapes' \in {totalScrapes, totalScrapes + 1}
        /\ (\E p \in collectors : pc[p] = "idle" /\ pc'[p] # "idle") <=>
             totalScrapes' = totalScrapes + 1]_vars

\* three scrapes have run; the last one failed both probes and reported
\* scrapes_total = 3
C19_Witness ==
  /\ totalScrapes = 3
  /\ scrapesRun = 3
  /\ out[1].sent
  /\ out[1].total = 3
  /\ out[1].up = 0

MissingLabels == {n \in DOMAIN qLabels : \A j \in DOMAIN qCols : qCols[j] # qLabels[n]}

\* C21 as stated: every sample of the row scanned last has as many label
\* values as the table has label names, and its i-th label value is the text
\* of the row's cell in the column named by the i-th label name.
C21_LabelsFollowDescriptor ==
  RowDone =>
    \A k \in DOMAIN qRowSamples :
      /\ Len(qRowSamples[k].labels) = Len(qLabels)
      /\ \A n \in DOMAIN qLabels :
           \E j \in DOMAIN qCols :
             /\ qCols[j] = qLabels[n]
             /\ qRowSamples[k].labels[n] = dbToString(qRow[j])[1]

\* C27 as stated: when the result set lacks the column of a label, the value
\* of that label on a sample is not the (non-empty) text of a cell of another
\* column of the row.
C27_LabelFromOwnColumn ==
  RowDone =>
    \A k \in DOMAIN qRowSamples :
      \A n \in MissingLabels :
        \A j \in DOMAIN qCols :
          dbToString(qRow[j])[1] # "" =>
            qRowSamples[k].labels[n] # dbToString(qRow[j])[1]

\* ------------------------------------------------------------------------
\* Properties of the reconnect block, the version and recovery
\* ------------------------------------------------------------------------
\* C22: a scrape probes at most twice and reconnects at most once; the second
\* probe and the reconnect happen only after a failed first probe; the handle
\* a scrape opened is not replaced by that scrape, and after a failed second
\* probe the scrape probes no more and opens no handle.
C22_OneReconnectTwoProbes ==
  /\ [](\A p \in collectors :
          /\ Len(probes[p]) <= 2
          /\ Len(probes[p]) = 2 => (~probes[p][1] /\ opened[p] # 0)
          /\ opened[p] # 0 => (probes[p] # <<>> /\ ~probes[p][1])
          /\ pc[p] \in {"close", "reopen", "ping2"} => probes[p] = <<FALSE>>)
  /\ [][\A p \in collectors :
          /\ (opened'[p] # opened[p] /\ pc[p] # "idle") =>
               (opened[p] = 0 /\ probes[p] = <<FALSE>>)
          /\ (probes[p] = <<FALSE, FALSE>> /\ pc[p] # "idle") =>
               (probes'[p] = probes[p] /\ opened'[p] = opened[p] /\ DB' = DB)]_vars

\* a scrape has returned after two failed probes and one reconnect
C22_Witness ==
  /\ probes[1] = <<FALSE, FALSE>>
  /\ pc[1] = "emit"
  /\ opened[1] # 0
  /\ opened[1] \in closed

\* C23: PgpoolSemver changes only in the step of main that follows
\* MustRegister, once; no step of a scrape changes it, and after that step it
\* keeps its value for good.
C23_VersionWrittenOnce ==
  /\ [][PgpoolSemver' # PgpoolSemver => (mainpc = "version" /\ mainpc' = "serve")]_vars
  /\ [][mainpc = "serve" => (mainpc' = "serve" /\ PgpoolSemver' = PgpoolSemver)]_vars
  /\ [](mainpc \in {"connect", "register", "version"} => PgpoolSemver = ZeroVersion)

\* a scrape after startup has reconnected and the version is still the one
\* startup detected
C23_Witness ==
  /\ mainpc = "serve"
  /\ PgpoolSemver = <<4, 2, 0>>
  /\ probes[1] = <<FALSE, TRUE>>
  /\ pc[1] = "emit"
  /\ out[1].total = 0
  /\ totalScrapes >= 2

\* C24: a scrape that begins on a closed handle fails its first probe; if its
\* probe after the reconnect succeeds, it ends with up = 1 on a fresh open
\* handle that replaced the closed one, although up was 0 when it began, and
\* its table pass ran to the end.
C24_RecoversAfterDown ==
  \A p \in collectors :
    /\ (pc[p] \in {"begin", "pass"}) => (DB # 0 /\ DB \notin closed)
    /\ (pc[p] = "emit" /\ Len(probes[p]) = 2 /\ probes[p][2] /\ 0 \in upSeen[p]) =>
         /\ up = 1
         /\ DB = opened[p]
         /\ DB \notin closed
         /\ db[p] = DB
         /\ todo[p] = {}
         /\ queried[p] = PassTables(PgpoolSemver)

\* the scrape before ended with up = 0 and both handles closed; this one has
\* opened a third handle and ends with up = 1
C24_Witness ==
  /\ pc[1] = "emit"
  /\ probes[1] = <<FALSE, TRUE>>
  /\ closed = {1, 2}
  /\ DB = 3
  /\ 0 \in upSeen[1]
  /\ up = 1
  /\ sampled[1] # {}

\* C28: the error gauge that Collect sends after a scrape whose two probes
\* failed is 1, with up = 0; after a scrape whose first probe failed, whose
\* second probe succeeded and in which no table failed it is 0.
C28_ErrorGaugeAfterProbes ==
  \A p \in collectors :
    /\ (Collected(p) /\ probes[p] = <<FALSE, FALSE>>) =>
         (out[p].error = 1 /\ out[p].up = 0)
    /\ (Collected(p) /\ probes[p] = <<FALSE, TRUE>> /\ errMap[p] = {}) =>
         out[p].error = 0

\* Collect has sent error = 1 and up = 0 after two failed probes
C28_Witness ==
  /\ Collected(1)
  /\ probes[1] = <<FALSE, FALSE>>
  /\ out[1].error = 1
  /\ out[1].up = 0
  /\ out[1].total = 3

\* C25 as stated: with two Collect calls on one Exporter, while one scrape is
\* in its table pass with tables still to query, the handle it queries is
\* neither closed nor replaced in e.DB, and the two scrapes are never both at
\* the assignment of e.DB.
C25_HandleStableDuringPass ==
  \A p, q \in collectors :
    p # q =>
      /\ (pc[q] = "pass" /\ todo[q] # {}) => (db[q] \notin closed /\ DB = db[q])
      /\ ~(pc[p] = "reopen" /\ pc[q] = "reopen")

\* ------------------------------------------------------------------------
\* Row-scan failures in the three branches of queryNamespaceMapping
\* ------------------------------------------------------------------------
\* one call of queryNamespaceMapping, on an aggregated or on a generic table
InitScan == InitAgg \/ InitRows

NextScan == NextAgg \/ NextRows

SpecScan == InitScan /\ [][NextScan]_vars

\* C29: a call on pool_processes or pool_pools that returns a fatal error has
\* sent no sample, however many rows it had read; a call on a generic table
\* whose scan fails returns fatally, and the samples of the rows read before
\* stay sent.
C29_ScanFailureAllOrNothing ==
  /\ []((apc = "done" /\ aResult.fatal) => aCh = EmptyMap)
  /\ [][(qpc = "rows" /\ qpc' = "done" /\ qResult'.fatal) =>
          (qSent' = qSent /\ qRowSamples' = qRowSamples /\ qResult'.nonfatal = <<>>)]_vars
  /\ []((qpc = "done" /\ qResult.fatal) => qSent >= Len(qRowSamples))

\* the scan of the third row of pool_processes failed after two rows, one of
\* them bound, were counted; nothing was sent
C29_Witness ==
  /\ aTable = "pool_processes"
  /\ apc = "done"
  /\ aResult.fatal
  /\ Len(aRows) = 3
  /\ Cardinality(aLeft) = 1
  /\ frontend_total = 2
  /\ frontend_used = 1
  /\ aCh = EmptyMap

\* ------------------------------------------------------------------------
\* Exporter.Describe: a Collect whose metrics a goroutine turns into
\* descriptors
\* ------------------------------------------------------------------------
\* samples a table pass may send during the Collect that Describe runs
DescribeSamples ==
  { [desc |-> "pgpool2_pool_nodes_status", labels |-> <<"0">>, value |-> 1],
    [desc |-> "pgpool2_pool_nodes_status", labels |-> <<"1">>, value |-> 0],
    [desc |-> "pgpool2_pool_cache_num_cache_hits", labels |-> <<>>,
     value |-> 2] }

RECURSIVE SeqsUpTo(_, _)
SeqsUpTo(S, n) ==
  IF n = 0 THEN {<<>>}
  ELSE LET shorter == SeqsUpTo(S, n - 1)
       IN shorter \cup {Append(q, x) : q \in shorter, x \in S}

\* prometheus.Metric.Desc(): the descriptor a metric was built from
Desc(m) == m.desc

\* ch <- e.duration; ch <- e.up; ch <- e.totalScrapes; ch <- e.error
SelfMetrics(u, e, t) ==
  << [desc |-> "pgpool2_last_scrape_duration_seconds", labels |-> <<>>,
      value |-> 0],
     [desc |-> "pgpool2_up", labels |-> <<>>, value |-> u],
     [desc |-> "pgpool2_scrapes_total", labels |-> <<>>, value |-> t],
     [desc |-> "pgpool2_last_scrape_error", labels |-> <<>>, value |-> e] >>

\* what the scrape leaves in the up and error gauges: a scrape that sent a
\* sample had a connection
ScrapeGauges(sent) ==
  {[up |-> 1, error |-> 0], [up |-> 1, error |-> 1]}
    \cup (IF sent = <<>> THEN {[up |-> 0, error |-> 1]} ELSE {})

descFrame == <<rowVars, aggVars, convVars, maskVars>>

descOrch ==
  <<mainpc, attempts, DB, closed, nHandles, PgpoolSemver, readers, crashed,
    faulty, verReply, collectors, pc, err, probes, opened, db, todo, queried,
    errMap, sampled, durationSet, upSeen, out, lastConn, scrapesRun>>

\* metricCh := make(chan prometheus.Metric); doneCh := make(chan struct{});
\* go func() { ... }()
DescribeStart ==
  /\ dpc = "start"
  /\ dpc' = "collect"
  /\ fpc' = "range"
  /\ UNCHANGED <<dToSend, dSent, fHeld, dOut, metricChClosed, doneChClosed,
                 up, error, totalScrapes, descOrch, descFrame>>

\* e.Collect(metricCh) enters scrape: totalScrapes.Inc(), then the probes; a
\* reconnect whose sql.Open failed ends the process before any sample
DescribeScrapeBegin ==
  /\ dpc = "collect"
  /\ totalScrapes' = Inc(totalScrapes)
  /\ \E dies \in BOOLEAN :
       IF dies
       THEN /\ dpc' = "panic"
            /\ dToSend' = <<>>
       ELSE /\ dpc' = "scrape"
            /\ UNCHANGED dToSend
  /\ UNCHANGED <<fpc, dSent, fHeld, dOut, metricChClosed, doneChClosed, up,
                 error, descOrch, descFrame>>

\* a send on the unbuffered metricCh meets the goroutine's receive
HandOff ==
  /\ dpc \in {"scrape", "self"}
  /\ dToSend # <<>>
  /\ fpc = "range"
  /\ fHeld' = Head(dToSend)
  /\ dSent' = Append(dSent, Head(dToSend))
  /\ dToSend' = Tail(dToSend)
  /\ fpc' = "forward"
  /\ UNCHANGED <<dpc, dOut, metricChClosed, doneChClosed, up, error,
                 totalScrapes, descOrch, descFrame>>

\* scrape returns; Collect goes on to its own four metrics
ScrapeReturns ==
  /\ dpc = "scrape"
  /\ dToSend = <<>>
  /\ \E g \in ScrapeGauges(dSent) :
       /\ up' = g.up
       /\ error' = g.error
       /\ dToSend' = SelfMetrics(g.up, g.error, totalScrapes)
  /\ dpc' = "self"
  /\ UNCHANGED <<fpc, dSent, fHeld, dOut, metricChClosed, doneChClosed,
                 totalScrapes, descOrch, descFrame>>

\* e.Collect(metricCh) returns
CollectReturns ==
  /\ dpc = "self"
  /\ dToSend = <<>>
  /\ dpc' = "close"
  /\ UNCHANGED <<fpc, dToSend, dSent, fHeld, dOut, metricChClosed,
                 doneChClosed, up, error, totalScrapes, descOrch, descFrame>>

\* close(metricCh)
CloseMetricCh ==
  /\ dpc = "close"
  /\ metricChClosed' = TRUE
  /\ dpc' = "wait"
  /\ UNCHANGED <<fpc, dToSend, dSent, fHeld, dOut, doneChClosed, up, error,
                 totalScrapes, descOrch, descFrame>>

\* ch <- m.Desc(): the reader of ch takes the descriptor
Forward ==
  /\ dpc # "panic"
  /\ fpc = "forward"
  /\ dOut' = Append(dOut, Desc(fHeld))
  /\ fHeld' = NoMetric
  /\ fpc' = "range"
  /\ UNCHANGED <<dpc, dToSend, dSent, metricChClosed, doneChClosed, up,
                 error, totalScrapes, descOrch, descFrame>>

\* for m := range metricCh ends on the closed channel; close(doneCh)
RangeEnds ==
  /\ dpc # "panic"
  /\ fpc = "range"
  /\ metricChClosed
  /\ doneChClosed' = TRUE
  /\ fpc' = "exit"
  /\ UNCHANGED <<dpc, dToSend, dSent, fHeld, dOut, metricChClosed, up, error,
                 totalScrapes, descOrch, descFrame>>

\* a caller that goes on without waiting for doneCh
DoneReceivedEarly(isClosed) == TRUE

\* <-doneCh returns once doneCh is closed
DoneReceived(isClosed) == isClosed

\* <-doneCh; Describe returns
DescribeReturns ==
  /\ dpc = "wait"
  /\ DoneReceived(doneChClosed)
  /\ dpc' = "returned"
  /\ UNCHANGED <<fpc, dToSend, dSent, fHeld, dOut, metricChClosed,
                 doneChClosed, up, error, totalScrapes, descOrch, descFrame>>

NextDescribe ==
  \/ DescribeStart
  \/ DescribeScrapeBegin
  \/ HandOff
  \/ ScrapeReturns
  \/ CollectReturns
  \/ CloseMetricCh
  \/ Forward
  \/ RangeEnds
  \/ DescribeReturns

InitDescribe ==
  /\ OrchInit({}, {{}}, {[kind |-> "error", text |-> <<>>]})
  /\ RowsOff
  /\ AggOff
  /\ ConvOff
  /\ MaskOff
  /\ dpc = "start"
  /\ fpc = "off"
  /\ dToSend \in SeqsUpTo(DescribeSamples, MaxMetrics)
  /\ dSent = <<>>
  /\ fHeld = NoMetric
  /\ dOut = <<>>
  /\ metricChClosed = FALSE
  /\ doneChClosed = FALSE

\* both goroutines are scheduled while they can run, and the reader of ch
\* keeps reading
SpecDescribe ==
  /\ InitDescribe
  /\ [][NextDescribe]_vars
  /\ WF_vars(DescribeStart \/ DescribeScrapeBegin \/ ScrapeReturns
               \/ CollectReturns \/ CloseMetricCh \/ DescribeReturns)
  /\ WF_vars(HandOff)
  /\ WF_vars(Forward \/ RangeEnds)

DescsOf(ms) == [i \in 1..Len(ms) |-> Desc(ms[i])]

\* C26: a Describe that returned ran one Collect to its end (one scrape,
\* scrapes_total one higher, the four own metrics last), the reader of ch got
\* the descriptor of every metric Collect sent, one each and in the order
\* sent, and the goroutine had forwarded the last of them; on the way at most
\* the one metric the goroutine holds is not yet forwarded; short of a crash
\* of the process some step is always possible and Describe does return.
C26_DescribeForwardsAll ==
  /\ [](dpc = "returned" =>
          /\ totalScrapes = 1
          /\ dToSend = <<>>
          /\ Len(dSent) >= 4
          /\ SubSeq(dSent, Len(dSent) - 3, Len(dSent))
               = SelfMetrics(up, error, totalScrapes)
          /\ dOut = DescsOf(dSent)
          /\ fHeld = NoMetric
          /\ fpc = "exit")
  /\ [](/\ Len(dOut) <= Len(dSent)
        /\ dOut = DescsOf(SubSeq(dSent, 1, Len(dOut)))
        /\ Len(dSent) - Len(dOut) = (IF fpc = "forward" THEN 1 ELSE 0))
  /\ [](dpc \notin {"returned", "panic"} => ENABLED NextDescribe)
  /\ <>(dpc \in {"returned", "panic"})

\* Describe returned after a Collect that sent two samples of one descriptor
\* and then its own four metrics
C26_Witness ==
  /\ dpc = "returned"
  /\ Len(dSent) = 6
  /\ dSent[1] # dSent[2]
  /\ Desc(dSent[1]) = Desc(dSent[2])
  /\ Len(dOut) = 6
  /\ dOut[6] = "pgpool2_last_scrape_error"

\* ------------------------------------------------------------------------
\* MaskPassword: url.Parse, url.UserPassword, URL.String
\* ------------------------------------------------------------------------
\* A DSN is a sequence of pieces of text: words, the delimiters ":", "/",
\* "?", "@", a blank, and percent escapes.

\* percent escapes whose two characters are not hexadecimal digits
BadEscapes == {"%zz"}

\* the character a percent escape stands for
Unhex(t) ==
  CASE t = "%40" -> "@"
    [] t \in {"%2f", "%2F"} -> "/"
    [] t = "%3A" -> ":"
    [] t = "%3F" -> "?"
    [] t = "%20" -> " "
    [] OTHER -> t

\* the percent escape url.escape writes for a character
Hex(c) ==
  CASE c = "@" -> "%40"
    [] c = "/" -> "%2F"
    [] c = ":" -> "%3A"
    [] c = "?" -> "%3F"
    [] c = " " -> "%20"
    [] OTHER -> c

\* url.shouldEscape
shouldEscape(c, mode) ==
  CASE mode = "encodeUserPassword" -> c \in {"@", "/", ":", "?", " "}
    [] mode = "encodePath" -> c \in {"?", " "}
    [] OTHER -> c \in {" "}

\* url.unescape: fails on a malformed percent escape
unescape(s) ==
  [ok |-> \A i \in 1..Len(s) : s[i] \notin BadEscapes,
   val |-> [i \in 1..Len(s) |-> Unhex(s[i])]]

\* url.escape
escape(s, mode) ==
  [i \in 1..Len(s) |-> IF shouldEscape(s[i], mode) THEN Hex(s[i]) ELSE s[i]]

\* strings.Index, strings.LastIndex: 0 when absent
Index(s, t) ==
  LET hits == {i \in 1..Len(s) : s[i] = t}
  IN IF hits = {} THEN 0 ELSE CHOOSE i \in hits : \A j \in hits : i <= j

LastIndex(s, t) ==
  LET hits == {i \in 1..Len(s) : s[i] = t}
  IN IF hits = {} THEN 0 ELSE CHOOSE i \in hits : \A j \in hits : j <= i

SchemeWords == {"postgresql", "PostgreSQL"}

\* strings.ToLower on a scheme
ToLower(w) == IF w = "PostgreSQL" THEN "postgresql" ELSE w

\* url.getScheme: letters up to the first ":" are the scheme; a character
\* that cannot be in a scheme, such as "=", means there is none
getScheme(s) ==
  IF Len(s) >= 2 /\ s[1] \in SchemeWords /\ s[2] = ":"
  THEN [scheme |-> s[1], rest |-> SubSeq(s, 3, Len(s))]
  ELSE [scheme |-> "", rest |-> s]

NoUrl ==
  [ok |-> FALSE, Scheme |-> "", Opaque |-> <<>>, hasUser |-> FALSE,
   username |-> <<>>, passwordSet |-> FALSE, password |-> <<>>,
   Host |-> <<>>, Path |-> <<>>, RawPath |-> <<>>, ForceQuery |-> FALSE,
   RawQuery |-> <<>>]

\* url.validOptionalPort on what follows the last ":" of the host
validOptionalPort(h) ==
  LET c == LastIndex(h, ":")
  IN c = 0 \/ \A i \in (c + 1)..Len(h) : h[i] \in Digits

\* url.validUserinfo: only letters, digits and a few marks
validUserinfo(s) == \A i \in 1..Len(s) : s[i] \notin {" ", "/", "?"}

\* url.parseAuthority: user info is what precedes the last "@"
parseAuthority(a) ==
  LET at == LastIndex(a, "@")
      host == SubSeq(a, at + 1, Len(a))
      h == unescape(host)
      userinfo == SubSeq(a, 1, at - 1)
      colon == Index(userinfo, ":")
      name == unescape(IF colon = 0 THEN userinfo
                       ELSE SubSeq(userinfo, 1, colon - 1))
      pass == unescape(IF colon = 0 THEN <<>>
                       ELSE SubSeq(userinfo, colon + 1, Len(userinfo)))
  IN IF ~validOptionalPort(host) \/ ~h.ok
     THEN [NoUrl EXCEPT !.ok = FALSE]
     ELSE IF at = 0
     THEN [NoUrl EXCEPT !.ok = TRUE, !.Host = h.val]
     ELSE IF ~validUserinfo(userinfo) \/ ~name.ok \/ ~pass.ok
     THEN [NoUrl EXCEPT !.ok = FALSE]
     ELSE [NoUrl EXCEPT !.ok = TRUE, !.Host = h.val, !.hasUser = TRUE,
                        !.username = name.val, !.passwordSet = colon # 0,
                        !.password = pass.val]

\* url.Parse
Parse(s) ==
  LET sc == getScheme(s)
      q == Index(sc.rest, "?")
      force == /\ q > 0
               /\ q = Len(sc.rest)
               /\ Cardinality({i \in 1..Len(sc.rest) : sc.rest[i] = "?"}) = 1
      rest == IF q = 0 THEN sc.rest ELSE SubSeq(sc.rest, 1, q - 1)
      rawQuery == IF q = 0 THEN <<>> ELSE SubSeq(sc.rest, q + 1, Len(sc.rest))
      slash == Len(rest) >= 1 /\ rest[1] = "/"
      slashes == Len(rest) >= 2 /\ rest[1] = "/" /\ rest[2] = "/"
      triple == Len(rest) >= 3 /\ slashes /\ rest[3] = "/"
      firstSlash == Index(rest, "/")
      segment == IF firstSlash = 0 THEN rest
                 ELSE SubSeq(rest, 1, firstSlash - 1)
      authorityOn == (sc.scheme # "" \/ ~triple) /\ slashes
      after == SubSeq(rest, 3, Len(rest))
      cut == Index(after, "/")
      authority == IF cut = 0 THEN after ELSE SubSeq(after, 1, cut - 1)
      pathText == IF ~authorityOn THEN rest
                  ELSE IF cut = 0 THEN <<>>
                  ELSE SubSeq(after, cut, Len(after))
      a == IF authorityOn THEN parseAuthority(authority)
           ELSE [NoUrl EXCEPT !.ok = TRUE]
      path == unescape(pathText)
  IN IF ~slash /\ sc.scheme # ""
     THEN [NoUrl EXCEPT !.ok = TRUE, !.Scheme = ToLower(sc.scheme),
                        !.Opaque = rest, !.ForceQuery = force,
                        !.RawQuery = rawQuery]
     ELSE IF ~slash /\ Index(segment, ":") # 0
     THEN NoUrl
     ELSE IF ~a.ok \/ ~path.ok
     THEN NoUrl
     ELSE [a EXCEPT !.Scheme = ToLower(sc.scheme), !.Path = path.val,
                    !.RawPath = IF escape(path.val, "encodePath") = pathText
                                THEN <<>> ELSE pathText,
                    !.ForceQuery = force, !.RawQuery = rawQuery]

\* url.validEncoded for a path
validEncoded(s) == \A i \in 1..Len(s) : s[i] \notin {" ", "?"} \cup BadEscapes

\* URL.EscapedPath: the text as it came when that is a valid encoding of Path
EscapedPath(u) ==
  IF u.RawPath # <<>> /\ validEncoded(u.RawPath)
       /\ unescape(u.RawPath).val = u.Path
  THEN u.RawPath
  ELSE escape(u.Path, "encodePath")

\* Userinfo.String
UserinfoString(u) ==
  escape(u.username, "encodeUserPassword")
    \o (IF u.passwordSet
        THEN <<":">> \o escape(u.password, "encodeUserPassword")
        ELSE <<>>)

\* URL.String
String(u) ==
  LET scheme == IF u.Scheme # "" THEN <<u.Scheme, ":">> ELSE <<>>
      authority ==
        IF u.Scheme # "" \/ u.Host # <<>> \/ u.hasUser
        THEN (IF u.Host # <<>> \/ u.Path # <<>> \/ u.hasUser
              THEN <<"/", "/">> ELSE <<>>)
             \o (IF u.hasUser THEN UserinfoString(u) \o <<"@">> ELSE <<>>)
             \o escape(u.Host, "encodeHost")
        ELSE <<>>
      path == EscapedPath(u)
      firstSlash == Index(path, "/")
      segment == IF firstSlash = 0 THEN path
                 ELSE SubSeq(path, 1, firstSlash - 1)
      lead == IF path # <<>> /\ path[1] # "/" /\ u.Host # <<>> THEN <<"/">>
              ELSE IF scheme \o authority = <<>> /\ Index(segment, ":") # 0
              THEN <<".", "/">>
              ELSE <<>>
  IN scheme
       \o (IF u.Opaque # <<>> THEN u.Opaque ELSE authority \o lead \o path)
       \o (IF u.ForceQuery \/ u.RawQuery # <<>>
           THEN <<"?">> \o u.RawQuery ELSE <<>>)

\* a user info that is left as it was parsed
Unmasked(u) == u

\* pDSN.User = url.UserPassword(pDSN.User.Username(), "MASKED_PASSWORD")
Masked(u) ==
  [u EXCEPT !.passwordSet = TRUE, !.password = <<"MASKED_PASSWORD">>]

CouldNotParse == <<"could not parse DATA_SOURCE_NAME">>

MaskPassword(dsn) ==
  LET pDSN == Parse(dsn)
  IN IF ~pDSN.ok THEN CouldNotParse
     ELSE IF pDSN.hasUser THEN String(Masked(pDSN))
     ELSE String(pDSN)

DsnUsers == {<<"bob">>, <<"a", "%2f", "b">>}

DsnPasswords ==
  {<<"s3cret">>, <<"hunter2">>, <<"p", "%40", "ss">>, <<"p", "%zz">>, <<>>}

DsnHosts == {<<"db">>, <<"db", ":", "5", "4", "3", "2">>}

DsnPaths == {<<>>, <<"/", "pool">>, <<"/", "my", " ", "db">>}

DsnQueries == {<<>>, <<"?", "sslmode=disable">>}

\* DSNs in the keyword form lib/pq also accepts
KeywordDsns ==
  { <<"host=db", " ", "user=bob", " ", "password=s3cret">>,
    <<"host=db", " ", "password=p", "%zz">> }

\* scheme://userinfo@host/path?query
UrlDsn(scheme, userinfo, host, path, query) ==
  <<scheme, ":", "/", "/">> \o userinfo \o host \o path \o query

maskFrame == <<orchVars, rowVars, aggVars, convVars, descVars>>

\* exp.MaskPassword(dsn)
CallMaskPassword ==
  /\ mDsn # <<>>
  /\ ~mOut.called
  /\ mOut' = [called |-> TRUE, text |-> MaskPassword(mDsn)]
  /\ UNCHANGED <<mDsn, mTwin, mTwinOut, maskFrame>>

\* the same call on the DSN with the other password
CallMaskPasswordTwin ==
  /\ mTwin # <<>>
  /\ ~mTwinOut.called
  /\ mTwinOut' = [called |-> TRUE, text |-> MaskPassword(mTwin)]
  /\ UNCHANGED <<mDsn, mTwin, mOut, maskFrame>>

NextMask ==
  \/ CallMaskPassword
  \/ CallMaskPasswordTwin

InitMask ==
  /\ OrchInit({}, {{}}, {[kind |-> "error", text |-> <<>>]})
  /\ RowsOff
  /\ AggOff
  /\ ConvOff
  /\ DescOff
  /\ mOut = NoDsn
  /\ mTwinOut = NoDsn
  /\ \/ \E sc \in SchemeWords, h \in DsnHosts, p \in DsnPaths,
           q \in DsnQueries :
          \/ \E u \in DsnUsers, pw, other \in DsnPasswords :
               /\ mDsn = UrlDsn(sc, u \o <<":">> \o pw \o <<"@">>, h, p, q)
               /\ mTwin = UrlDsn(sc, u \o <<":">> \o other \o <<"@">>, h, p, q)
          \/ \E u \in DsnUsers :
               /\ mDsn = UrlDsn(sc, u \o <<"@">>, h, p, q)
               /\ mTwin = mDsn
          \/ /\ mDsn = UrlDsn(sc, <<>>, h, p, q)
             /\ mTwin = mDsn
     \/ /\ mDsn \in KeywordDsns
        /\ mTwin = mDsn

SpecMask == InitMask /\ [][NextMask]_vars

Pieces(s) == {s[i] : i \in 1..Len(s)}

\* every piece of text a password of the user info is written with
PasswordPieces == UNION {Pieces(pw) : pw \in DsnPasswords}

\* what MaskPassword returned for a DSN whose user info it parsed: the
\* password is MASKED_PASSWORD and nothing of the old one is left, the user
\* name, host, path and query are those of the DSN
MaskedInPlace(dsn, text) ==
  LET given == Parse(dsn)
      o == Parse(text)
  IN (given.ok /\ given.hasUser) =>
       /\ o.ok
       /\ o.hasUser
       /\ o.passwordSet
       /\ o.password = <<"MASKED_PASSWORD">>
       /\ Pieces(text) \cap PasswordPieces = {}
       /\ o.username = given.username
       /\ o.Host = given.Host
       /\ o.Path = given.Path
       /\ o.RawQuery = given.RawQuery

\* a DSN without user info comes back with the same parts and no password
NothingAdded(dsn, text) ==
  LET given == Parse(dsn)
      o == Parse(text)
  IN (given.ok /\ ~given.hasUser) =>
       /\ "MASKED_PASSWORD" \notin Pieces(text)
       /\ o.ok
       /\ ~o.hasUser
       /\ o.Opaque = given.Opaque
       /\ o.Host = given.Host
       /\ o.Path = given.Path
       /\ o.RawQuery = given.RawQuery

\* a DSN that does not parse gives the fixed message, with nothing of the DSN
FixedMessage(dsn, text) ==
  ~Parse(dsn).ok =>
    /\ text = CouldNotParse
    /\ Pieces(text) \cap Pieces(dsn) = {}

MaskedAsDescribed(dsn, res) ==
  res.called =>
    /\ MaskedInPlace(dsn, res.text)
    /\ NothingAdded(dsn, res.text)
    /\ FixedMessage(dsn, res.text)

\* C30 as stated: two DSNs that differ only given the password of their user
\* info give the same output, whatever the passwords; a parsed user info is
\* masked given place, a DSN without user info gets no password, an unparseable
\* DSN gives the fixed message.
C30_AnyTwoPasswordsSameOutput ==
  /\ (mOut.called /\ mTwinOut.called) => mOut.text = mTwinOut.text
  /\ MaskedAsDescribed(mDsn, mOut)
  /\ MaskedAsDescribed(mTwin, mTwinOut)

\* C30: two DSNs that differ only given the password of their user info and
\* both parse give the same output; when a password makes its DSN
\* unparseable the output is the fixed message; a parsed user info is masked
\* given place, a DSN without user info gets no password, an unparseable DSN
\* gives the fixed message.
C30_MaskHidesPassword ==
  /\ (mOut.called /\ mTwinOut.called /\ Parse(mDsn).ok /\ Parse(mTwin).ok)
       => mOut.text = mTwinOut.text
  /\ (mOut.called /\ mTwinOut.called /\ mOut.text # mTwinOut.text)
       => CouldNotParse \in {mOut.text, mTwinOut.text}
  /\ MaskedAsDescribed(mDsn, mOut)
  /\ MaskedAsDescribed(mTwin, mTwinOut)

\* two DSNs with different passwords, one written with an escape, and a path
\* that is written back with an escape, were masked to the same text
C30_Witness ==
  /\ mOut.called
  /\ mTwinOut.called
  /\ mDsn # mTwin
  /\ Parse(mDsn).ok
  /\ Parse(mDsn).password = <<"p", "@", "ss">>
  /\ Parse(mTwin).ok
  /\ mOut.text = mTwinOut.text
  /\ "MASKED_PASSWORD" \in Pieces(mOut.text)
  /\ "%20" \in Pieces(mOut.text)
  /\ mOut.text # mDsn

====
